---- MODULE Spec2Model ----
(***************************************************************************)
(* Credential and session lifecycle engine of base-express: login with the *)
(* hybrid lockout guard, refresh-token rotation with reuse detection,      *)
(* logout, password reset, the access-token middleware and the per-request *)
(* unit of work, as a state machine of concurrently running requests.      *)
(*                                                                         *)
(* Every request is cut into steps at the awaits of its handler: one step  *)
(* per durable-store statement and one per cache (Redis) command.  The     *)
(* store follows PostgreSQL READ COMMITTED: a statement sees the committed *)
(* rows plus the writes of its own transaction, and an UPDATE waits for a  *)
(* row written by another open transaction.                                *)
(***************************************************************************)
EXTENDS Integers, FiniteSets, Sequences, TLC

\* ---------------------------------------------------------------- bounds
MaxReq == 2
MaxSessions == 2
MaxJti == 3
MaxTime == 4
MaxResetTokens == 1
MaxValidations == 2
\* token lifetimes in clock ticks (config tokens.expiry, scaled)
AccessTtl == 2
SessionTtl == 3
ResetTtl == 1

\* cap on how far an attempt counter may run past its threshold
MaxOver == 1

\* LOCKOUT_CONFIG.email.windowMs in clock ticks (scaled)
WindowLen == 3

\* ------------------------------------------------------ program constants
EmailMaxAttempts == 5
IpMaxAttempts == 20

Req == 1..MaxReq
Sids == 1..MaxSessions
ResetIds == 1..MaxResetTokens

Users == {"u1", "u2"}
\* emails as typed by a client; "A1" is "a1" in another letter case,
\* "zz" belongs to no account
Emails == {"a1", "A1", "a2", "zz"}
Ips == {"ip1"}
NoIp == "none"

toLowerCase(e) == IF e = "A1" THEN "a1" ELSE e

\* users table: u.email = $1 is an exact match
UserOfEmail(e) == IF e = "a1" THEN "u1" ELSE IF e = "a2" THEN "u2" ELSE "none"

\* ---------------------------------------------------------------- values
NoRow == [status |-> "absent"]
NoWrite == [status |-> "nowrite"]
NoTok == [typ |-> "none"]

\* a refresh identifier as generated by uuidv4
Uuid(n) == <<"uuid", n>>
NoJti == <<"uuid", 0>>

\* sha256 of a jti: injective, and never equal to a raw jti
hashJti(jti) == <<"sha256", jti[2]>>

AccessToken(sid, sub, iat) ==
    [typ |-> "access", sid |-> sid, sub |-> sub, jti |-> NoJti, exp |-> iat + AccessTtl]

RefreshToken(sid, sub, jti, iat) ==
    [typ |-> "refresh", sid |-> sid, sub |-> sub, jti |-> jti, exp |-> iat + SessionTtl]

\* tokens.expiry.id lies between the access and the refresh lifetime
IdTtl == AccessTtl + 1

IdToken(sid, sub, iat) ==
    [typ |-> "id", sid |-> sid, sub |-> sub, jti |-> NoJti, exp |-> iat + IdTtl]

SessionRow(userId, jtiHash, expiresAt) ==
    [user_id |-> userId, refresh_jti |-> jtiHash, status |-> "active",
     expires_at |-> expiresAt, revoked_at |-> -1, revoke_reason |-> "null"]

LockKeys == {<<"email", toLowerCase(e)>> : e \in Emails} \cup {<<"ip", i>> : i \in Ips}

VARIABLES
    now,          \* clock
    redisMode,    \* "up", "down" (configured, unreachable) or "unconfigured"
    lockCnt,      \* lockout:<type>:<id> attempt counters (0 = no key)
    lockTtl,      \* whether the counter key carries an expiry
    locked,       \* lockout:<type>:<id>:locked keys
    cacheSession, \* sids with a session:<sid> key in the cache
    sessions,     \* committed user_sessions rows
    resetTokens,  \* committed password_reset_tokens rows
    audit,        \* committed audit_logs actions
    pwVersion,    \* committed users.password, as a version number
    tx,           \* per request: uncommitted writes of its transaction
    req,          \* per request: handler position and locals
    issued,       \* tokens delivered to clients
    nextSid,      \* uuid supply for session ids
    nextJti,      \* uuid supply for refresh identifiers
    nextReset,    \* random supply for reset tokens
    inProgressValidation, \* validation cache: session key -> pending promise (0 = no entry)
    promises,     \* validation cache: the promises validateTokens has returned
    verifyCache,  \* session keys with a verify:<key> entry in the cache
    lreq,         \* per request of the validation-cache middleware: position and locals
    nextPromise,  \* identity supply for promises
    uow,          \* per request of the unit-of-work wrapper: its DB object and what it issued
    cleanupAt,    \* when runCleanup last completed (-1: never)
    revokeCall,   \* what the latest direct call of revokeAllUserSessions returned (-1: none)
    jwtKeys,      \* the key pair the process signs and verifies with, the tokens signed
                  \* so far with the kid of their header, and the latest verification
    disabled,     \* users whose disabled flag is set
    config,       \* auth.mode and NODE_ENV the process was started with
    window        \* per counter key: when its TTL runs out (0: no TTL), and the times of
                  \* the latest maxAttempts - 1 failed attempts counted for it since a
                  \* lock or a success

vars == <<now, redisMode, lockCnt, lockTtl, locked, cacheSession, sessions,
          resetTokens, audit, pwVersion, tx, req, issued, nextSid, nextJti, nextReset,
          inProgressValidation, promises, verifyCache, lreq, nextPromise, uow,
          cleanupAt, window, revokeCall, jwtKeys, disabled, config>>

cacheVars == <<lockCnt, lockTtl, locked, cacheSession>>
storeVars == <<sessions, resetTokens, audit, pwVersion>>
supplyVars == <<nextSid, nextJti, nextReset>>
legacyVars == <<inProgressValidation, promises, verifyCache, lreq, nextPromise>>
envVars == <<jwtKeys, disabled, config>>
auxVars == <<legacyVars, uow, cleanupAt, window, revokeCall, envVars>>
\* everything but the attempt counters, their TTLs and the window history
lockSide == <<legacyVars, uow, cleanupAt, revokeCall, envVars, now, redisMode, locked, cacheSession>>

\* ------------------------------------------------------------- requests
IdleReq ==
    [kind |-> "none", pc |-> "idle", email |-> "zz", pw |-> "bad", ip |-> NoIp,
     tok |-> NoTok, rtok |-> 0, user |-> "none", sid |-> 0, scope |-> "email",
     att |-> 0, lockedBy |-> "none", newJti |-> NoJti, iat |-> 0, out |-> "none",
     \* history of the request, read by the properties only
     lockHeld |-> FALSE, chkUp |-> FALSE, cmp |-> FALSE, recIp |-> "none",
     authed |-> "none", valid |-> FALSE, auditFailed |-> FALSE]

EmptyTx ==
    [open |-> FALSE,
     start |-> 0,
     sess |-> [s \in Sids |-> NoWrite],
     reset |-> [t \in ResetIds |-> NoWrite],
     audit |-> {},
     pw |-> {}]

PromiseIds == 1..MaxValidations

NoPromise == [state |-> "unborn"]

IdleVerify ==
    [pc |-> "idle", key |-> 0, session |-> FALSE, email |-> "zz", status |-> "invalid",
     redisAvailable |-> FALSE, promise |-> 0, started |-> FALSE, out |-> "none"]

\* new DB(): no client, no transaction, not released; log is what the request
\* has sent to the database and the pool so far
NewDB == [client |-> FALSE, inTransaction |-> FALSE, released |-> FALSE, log |-> <<>>]

IdleUow == [pc |-> "idle", kind |-> "none", db |-> NewDB, helper |-> "none", table |-> "none"]

Init ==
    /\ uow = [r \in Req |-> IdleUow]
    /\ cleanupAt = -1
    /\ revokeCall = -1
    /\ jwtKeys = [current |-> 1, signed |-> {}, checked |-> [kid |-> 0, fresh |-> FALSE, ok |-> FALSE]]
    /\ disabled = {}
    /\ config = [mode |-> "bearer", production |-> FALSE]
    /\ window = [k \in LockKeys |-> [due |-> 0, fails |-> <<>>]]
    /\ inProgressValidation = [k \in Sids |-> 0]
    /\ promises = [p \in PromiseIds |-> NoPromise]
    /\ verifyCache = {}
    /\ lreq = [r \in Req |-> IdleVerify]
    /\ nextPromise = 1
    /\ now = 0
    /\ redisMode \in {"up", "down", "unconfigured"}
    /\ lockCnt = [k \in LockKeys |-> 0]
    /\ lockTtl = [k \in LockKeys |-> FALSE]
    /\ locked = [k \in LockKeys |-> FALSE]
    /\ cacheSession = {}
    /\ sessions = [s \in Sids |-> NoRow]
    /\ resetTokens = [t \in ResetIds |-> NoRow]
    /\ audit = {}
    /\ pwVersion = [u \in Users |-> 0]
    /\ tx = [r \in Req |-> EmptyTx]
    /\ req = [r \in Req |-> IdleReq]
    /\ issued = {}
    /\ nextSid = 1
    /\ nextJti = 1
    /\ nextReset = 1


\* ------------------------------------------------------ store, per request
\* NOW() in a statement of request r: the start time of r's transaction
NOW(r) == tx[r].start

\* what a statement of request r reads: committed rows plus r's own writes
View(r) ==
    [s \in Sids |-> IF tx[r].sess[s].status # "nowrite" THEN tx[r].sess[s] ELSE sessions[s]]

ResetView(r) ==
    [t \in ResetIds |-> IF tx[r].reset[t].status # "nowrite" THEN tx[r].reset[t] ELSE resetTokens[t]]

\* an UPDATE of rows S by r waits while another open transaction has written one
RowLocked(r, S) ==
    \E q \in Req \ {r} : \E s \in S : tx[q].sess[s].status # "nowrite"

ResetLocked(r, T) ==
    \E q \in Req \ {r} : \E t \in T : tx[q].reset[t].status # "nowrite"

\* the variant that finds the row whatever its status
getActiveSession_anyStatus(v, sid, t) ==
    IF sid \in Sids /\ v[sid].status # "absent" THEN sid ELSE 0

\* SELECT * FROM user_sessions WHERE sid = $1 AND status = 'active' AND expires_at > NOW()
getActiveSession(v, sid, t) ==
    IF sid \in Sids /\ v[sid].status = "active" /\ v[sid].expires_at > t
    THEN sid ELSE 0

\* variant: the lookup matches any active session, whatever its identifier
getSessionByRefreshJti_anyActive(v, jti) ==
    LET hit == {s \in Sids : v[s].status = "active"}
    IN IF hit = {} THEN 0 ELSE CHOOSE s \in hit : \A o \in hit : s <= o

\* SELECT * FROM user_sessions WHERE refresh_jti = hashJti($1) AND status = 'active'
getSessionByRefreshJti(v, jti) ==
    LET hit == {s \in Sids : v[s].status = "active" /\ v[s].refresh_jti = hashJti(jti)}
    IN IF hit = {} THEN 0 ELSE CHOOSE s \in hit : \A o \in hit : s <= o

\* the same INSERT with the identifier as it is in the token
createSession_clear(w, sid, userId, refreshJti, expiresAt) ==
    [w EXCEPT ![sid] = SessionRow(userId, refreshJti, expiresAt)]

\* INSERT INTO user_sessions (...) VALUES ($1, $2, hashJti($3), 'active', $4, NOW())
createSession(w, sid, userId, refreshJti, expiresAt) ==
    [w EXCEPT ![sid] = SessionRow(userId, hashJti(refreshJti), expiresAt)]

\* rows hit by UPDATE ... WHERE sid = $1 AND status = 'active'
rotateTargets(v, sid) ==
    {s \in Sids : s = sid /\ v[s].status = "active"}

\* UPDATE user_sessions SET refresh_jti = hashJti($2), rotated_at, last_seen_at
\* WHERE sid = $1 AND status = 'active'
rotateRefreshToken(v, w, sid, newJti) ==
    [s \in Sids |-> IF s \in rotateTargets(v, sid)
                    THEN [v[s] EXCEPT !.refresh_jti = hashJti(newJti)]
                    ELSE w[s]]

\* rows hit by UPDATE ... WHERE sid = $1
revokeTargets(v, sid) ==
    {s \in Sids : s = sid /\ v[s].status # "absent"}

\* variant: revoking a session that is already revoked re-activates it
revokeSession_toggle(v, w, sid, reason, t) ==
    [s \in Sids |-> IF s \in revokeTargets(v, sid)
                    THEN [v[s] EXCEPT !.status = IF @ = "revoked" THEN "active" ELSE "revoked",
                                      !.revoked_at = t, !.revoke_reason = reason]
                    ELSE w[s]]

\* UPDATE user_sessions SET status = 'revoked', revoked_at = NOW(), revoke_reason = $2
\* WHERE sid = $1
revokeSession(v, w, sid, reason, t) ==
    [s \in Sids |-> IF s \in revokeTargets(v, sid)
                    THEN [v[s] EXCEPT !.status = "revoked", !.revoked_at = t,
                                      !.revoke_reason = reason]
                    ELSE w[s]]

\* the same UPDATE without its status condition
revokeAllTargets_anyStatus(v, userId, exceptSid) ==
    {s \in Sids : v[s].status # "absent" /\ v[s].user_id = userId /\ s # exceptSid}

\* rows hit by UPDATE ... WHERE user_id = $1 AND status = 'active' [AND sid != $3]
revokeAllTargets(v, userId, exceptSid) ==
    {s \in Sids : v[s].status = "active" /\ v[s].user_id = userId /\ s # exceptSid}

\* UPDATE user_sessions SET status = 'revoked', revoked_at = NOW(), revoke_reason = $2
\* WHERE user_id = $1 AND status = 'active' [AND sid != $3]
revokeAllUserSessions(v, w, userId, reason, exceptSid, t) ==
    [s \in Sids |-> IF s \in revokeAllTargets(v, userId, exceptSid)
                    THEN [v[s] EXCEPT !.status = "revoked", !.revoked_at = t,
                                      !.revoke_reason = reason]
                    ELSE w[s]]

\* rows hit by UPDATE ... WHERE status = 'active' AND expires_at < NOW()
expiredTargets(v, t) ==
    {s \in Sids : v[s].status = "active" /\ v[s].expires_at < t}

\* UPDATE user_sessions SET status = 'expired' WHERE status = 'active' AND expires_at < NOW()
cleanupExpiredSessions(v, t) ==
    [s \in Sids |-> IF s \in expiredTargets(v, t) THEN [v[s] EXCEPT !.status = "expired"] ELSE v[s]]

\* the variant without the disabled filter
getUserById_anyState(userId) == IF userId \in Users THEN userId ELSE "none"

\* users: WHERE u.id = $1 AND u.disabled = false
getUserById(userId) == IF userId \in Users /\ userId \notin disabled THEN userId ELSE "none"

\* users: WHERE u.email = $1 AND u.disabled = false
getUserByEmail(e) == IF UserOfEmail(e) \in disabled THEN "none" ELSE UserOfEmail(e)

\* jwt.verify: signature, exp, issuer, audience; then the typ discriminator
verifyToken(tok) == tok.typ # "none" /\ now < tok.exp
verifyRefreshToken(tok) == verifyToken(tok) /\ tok.typ = "refresh" /\ tok.jti # NoJti
\* the variant without the check of the kind discriminator
verifyAccessToken_anyKind(tok) == verifyToken(tok)

verifyAccessToken(tok) == verifyToken(tok) /\ tok.typ = "access"

\* ------------------------------------------------------------ unit of work
Busy(r) == req[r].pc \notin {"idle", "done"}

InFlight(kinds) == Cardinality({q \in Req : Busy(q) /\ req[q].kind \in kinds})

\* seq = TRUE admits a request only when no other request is running: the
\* requests of a sequential client follow one another in the first slot
Admit(r, seq) ==
    /\ ~Busy(r)
    /\ seq => r = 1

\* a handler throws: handleRequest's catch rolls back
Throw(rq, code) == [rq EXCEPT !.pc = "rollback", !.out = code]

\* a handler returns: handleRequest commits
Return(rq) == [rq EXCEPT !.pc = "commit"]

\* db.connect(): take a pooled connection and BEGIN
Connect(r) ==
    /\ req[r].pc = "connect"
    /\ tx' = [tx EXCEPT ![r] = [EmptyTx EXCEPT !.open = TRUE, !.start = now]]
    /\ req' = [req EXCEPT ![r].pc =
                  CASE req[r].kind = "login" -> "chk_ping"
                    [] req[r].kind = "refresh" -> "rf_jti"
                    [] req[r].kind = "logout" -> "lo_revoke"
                    [] req[r].kind = "me" -> "commit"
                    [] req[r].kind = "reset" -> "rs_validate"
                    [] req[r].kind = "cleanup" -> "cu_sessions"
                    [] OTHER -> "rq_find"]
    /\ UNCHANGED <<auxVars, now, redisMode, cacheVars, storeVars, issued, supplyVars>>

Written(w, old) == [k \in DOMAIN old |-> IF w[k].status # "nowrite" THEN w[k] ELSE old[k]]

\* COMMIT: the transaction's writes become the committed rows
CommitStore(r) ==
    /\ sessions' = Written(tx[r].sess, sessions)
    /\ resetTokens' = Written(tx[r].reset, resetTokens)
    /\ audit' = audit \cup tx[r].audit
    /\ pwVersion' = [u \in Users |-> IF u \in tx[r].pw THEN pwVersion[u] + 1 ELSE pwVersion[u]]

\* tokens the response of a successful login or refresh carries
ResponseTokens(rq) ==
    IF rq.kind \in {"login", "refresh"}
    THEN {AccessToken(rq.sid, rq.user, rq.iat), RefreshToken(rq.sid, rq.user, rq.newJti, rq.iat)}
         \cup (IF rq.kind = "login" THEN {IdToken(rq.sid, rq.user, rq.iat)} ELSE {})
    ELSE {}

\* the response is sent: the handler's locals are gone, what the client sent
\* and received stays (with the history the properties read)
Respond(rq, out) ==
    [rq EXCEPT !.pc = "done", !.out = out, !.scope = "email", !.att = 0,
               !.newJti = NoJti, !.iat = 0]

\* the variant that leaves the reset token in the response in every environment
requestPasswordReset_dev(rq) == rq

\* requestPasswordReset: the token that createPasswordResetRequest returned is
\* spread into the response unless NODE_ENV is production
requestPasswordReset(rq) ==
    IF rq.kind = "resetreq" /\ config.production THEN [rq EXCEPT !.rtok = 0] ELSE rq

\* handler returned: db.commit(), response sent, db.release()
Commit(r) ==
    /\ req[r].pc = "commit"
    /\ IF tx[r].open THEN CommitStore(r) ELSE UNCHANGED storeVars
    /\ tx' = [tx EXCEPT ![r] = EmptyTx]
    /\ issued' = issued \cup ResponseTokens(req[r])
    /\ req' = [req EXCEPT ![r] = Respond(requestPasswordReset(@), "OK")]
    /\ UNCHANGED <<auxVars, now, redisMode, cacheVars, supplyVars>>

\* the variant that keeps what the failed handler wrote
Rollback_keeps(r) ==
    /\ req[r].pc = "rollback"
    /\ CommitStore(r)
    /\ tx' = [tx EXCEPT ![r] = EmptyTx]
    /\ req' = [req EXCEPT ![r] = Respond(@, @.out)]
    /\ UNCHANGED <<auxVars, now, redisMode, cacheVars, issued, supplyVars>>

\* handler threw: db.rollback(), error response, db.release()
Rollback(r) ==
    /\ req[r].pc = "rollback"
    /\ tx' = [tx EXCEPT ![r] = EmptyTx]
    /\ req' = [req EXCEPT ![r] = Respond(@, @.out)]
    /\ UNCHANGED <<auxVars, now, redisMode, cacheVars, storeVars, issued, supplyVars>>


\* ------------------------------------------------------------ lockout guard
\* LOCKOUT_CONFIG[type].maxAttempts
maxAttempts(type) == IF type = "email" THEN EmailMaxAttempts ELSE IpMaxAttempts

\* `${config.keyPrefix}${identifier.toLowerCase()}`
lockoutKey(type, identifier) == <<type, toLowerCase(identifier)>>

ScopeKey(rq) == lockoutKey(rq.scope, IF rq.scope = "email" THEN rq.email ELSE rq.ip)

\* variant: clearLockout deletes the keys of the ip scope
clearLockoutKey_ip(email) == lockoutKey("ip", "ip1")

\* the keys clearLockout deletes
clearLockoutKey(email) == lockoutKey("email", email)

\* variant: the lock key is never found
isLocked_never(key) == FALSE

\* redis.get(lockoutKey) as a truth value
isLocked(key) == locked[key]

\* a Redis command of a request is answered only while the server is reachable
RedisOk == redisMode = "up"

\* POST /login arrives
StartLogin(r, seq, e, pw, ip) ==
    /\ Admit(r, seq)
    /\ nextSid + InFlight({"login"}) <= MaxSessions
    /\ nextJti + InFlight({"login", "refresh"}) <= MaxJti
    /\ req' = [req EXCEPT ![r] = [IdleReq EXCEPT !.kind = "login", !.pc = "connect",
                                    !.email = e, !.pw = pw, !.ip = ip,
                                    !.lockHeld = locked[lockoutKey("email", e)]]]
    /\ UNCHANGED <<auxVars, now, redisMode, cacheVars, storeVars, tx, issued, supplyVars>>

\* a check of the email scope alone
CheckPassed_emailOnly(rq) == [rq EXCEPT !.scope = "email", !.pc = "get_user"]

\* checkLockout: the scope just checked is not locked
CheckPassed(rq) ==
    IF rq.scope = "email" /\ rq.ip # NoIp
    THEN [rq EXCEPT !.scope = "ip", !.pc = "chk_ping"]
    ELSE [rq EXCEPT !.scope = "email", !.pc = "get_user"]

\* checkLockoutForKey: RedisSingleton.getInstance(), await RedisSingleton.ping()
ChkPing(r) ==
    /\ req[r].pc = "chk_ping"
    /\ req' = [req EXCEPT ![r] =
                  IF redisMode = "unconfigured" THEN Throw(@, "SERVICE_UNAVAILABLE")
                  ELSE IF RedisOk
                       THEN [@ EXCEPT !.pc = "chk_lock",
                                      !.chkUp = (req[r].scope = "email") \/ @]
                       ELSE CheckPassed(@)]
    /\ UNCHANGED <<auxVars, now, redisMode, cacheVars, storeVars, tx, issued, supplyVars>>

\* checkLockoutForKey: await redis.get(lockoutKey)
ChkLock(r) ==
    /\ req[r].pc = "chk_lock"
    /\ req' = [req EXCEPT ![r] =
                  IF ~RedisOk THEN Throw(@, "REDIS_ERROR")
                  ELSE IF isLocked(ScopeKey(@)) THEN [@ EXCEPT !.pc = "chk_ttl"]
                       ELSE [@ EXCEPT !.pc = "chk_cnt"]]
    /\ UNCHANGED <<auxVars, now, redisMode, cacheVars, storeVars, tx, issued, supplyVars>>

\* checkLockoutForKey: await redis.ttl(lockoutKey); login throws "Account temporarily locked"
ChkTtl(r) ==
    /\ req[r].pc = "chk_ttl"
    /\ req' = [req EXCEPT ![r] =
                  IF ~RedisOk THEN Throw(@, "REDIS_ERROR")
                  ELSE Throw([@ EXCEPT !.lockedBy = req[r].scope], "ACCOUNT_LOCKED")]
    /\ UNCHANGED <<auxVars, now, redisMode, cacheVars, storeVars, tx, issued, supplyVars>>

\* checkLockoutForKey: await redis.get(key) for attemptsRemaining
ChkCnt(r) ==
    /\ req[r].pc = "chk_cnt"
    /\ req' = [req EXCEPT ![r] = IF ~RedisOk THEN Throw(@, "REDIS_ERROR") ELSE CheckPassed(@)]
    /\ UNCHANGED <<auxVars, now, redisMode, cacheVars, storeVars, tx, issued, supplyVars>>

\* getUserByEmail, then comparePasswords
GetUser(r) ==
    /\ req[r].pc = "get_user"
    /\ LET u == getUserByEmail(req[r].email)
       IN req' = [req EXCEPT ![r] =
                     IF u # "none" /\ @.pw = "good"
                     THEN [@ EXCEPT !.user = u, !.cmp = TRUE, !.pc = "clr_ping"]
                     ELSE [@ EXCEPT !.cmp = (u # "none"), !.scope = "email", !.pc = "rec_ping"]]
    /\ UNCHANGED <<auxVars, now, redisMode, cacheVars, storeVars, tx, issued, supplyVars>>


\* audit entries login writes before it throws
FailAudit(rq) ==
    IF rq.pc # "rollback" THEN {}
    ELSE IF rq.out = "INVALID_CREDENTIALS" THEN {"login_failed"}
    ELSE IF rq.out = "LOCKED_AFTER_FAILURE" THEN {"login_failed", "account_locked"}
    ELSE {}

\* recordFailedAttempt: the scope just recorded reports locked
RecLocked(rq) == Throw([rq EXCEPT !.lockedBy = rq.scope], "LOCKED_AFTER_FAILURE")

\* recordFailedAttempt: the scope just recorded reports not locked
RecNotLocked(rq) ==
    IF rq.scope = "email" /\ rq.ip # NoIp
    THEN [rq EXCEPT !.scope = "ip", !.pc = "rec_ping"]
    ELSE Throw(rq, "INVALID_CREDENTIALS")

RecStep(r, nr) ==
    /\ req' = [req EXCEPT ![r] = nr]
    /\ tx' = [tx EXCEPT ![r].audit = @ \cup FailAudit(nr)]

\* recordAttemptForKey: RedisSingleton.getInstance(), await RedisSingleton.ping()
RecPing(r) ==
    /\ req[r].pc = "rec_ping"
    /\ RecStep(r, IF redisMode = "unconfigured" THEN Throw(req[r], "SERVICE_UNAVAILABLE")
                  ELSE IF RedisOk THEN [req[r] EXCEPT !.pc = "rec_lock"]
                  ELSE RecNotLocked(req[r]))
    /\ UNCHANGED <<auxVars, now, redisMode, cacheVars, storeVars, issued, supplyVars>>

\* recordAttemptForKey: await redis.get(lockoutKey)
RecLock(r) ==
    /\ req[r].pc = "rec_lock"
    /\ RecStep(r, IF ~RedisOk THEN Throw(req[r], "REDIS_ERROR")
                  ELSE IF isLocked(ScopeKey(req[r])) THEN [req[r] EXCEPT !.pc = "rec_ttl"]
                  ELSE [req[r] EXCEPT !.pc = "rec_incr"])
    /\ UNCHANGED <<auxVars, now, redisMode, cacheVars, storeVars, issued, supplyVars>>

\* recordAttemptForKey: await redis.ttl(lockoutKey), return locked
RecTtl(r) ==
    /\ req[r].pc = "rec_ttl"
    /\ RecStep(r, IF ~RedisOk THEN Throw(req[r], "REDIS_ERROR") ELSE RecLocked(req[r]))
    /\ UNCHANGED <<auxVars, now, redisMode, cacheVars, storeVars, issued, supplyVars>>

\* what follows the increment (and the expire of a first attempt)
AfterIncr(rq) ==
    IF rq.att >= maxAttempts(rq.scope) THEN [rq EXCEPT !.pc = "rec_set"] ELSE RecNotLocked(rq)

\* recordAttemptForKey: attempts = await redis.incr(key)
RecIncr(r) ==
    /\ req[r].pc = "rec_incr"
    /\ LET k == ScopeKey(req[r])
           n == lockCnt[k] + 1
           rq == [req[r] EXCEPT !.att = n,
                                !.recIp = IF req[r].scope = "ip" THEN req[r].ip ELSE @]
       IN IF ~RedisOk
          THEN /\ RecStep(r, Throw(req[r], "REDIS_ERROR"))
               /\ UNCHANGED <<lockCnt, window>>
          ELSE /\ lockCnt[k] < maxAttempts(req[r].scope) + MaxOver
               /\ lockCnt' = [lockCnt EXCEPT ![k] = n]
               /\ window' = [window EXCEPT ![k].fails =
                                 IF req[r].scope # "email" THEN @
                                 ELSE IF Len(@) < EmailMaxAttempts - 1 THEN Append(@, now)
                                 ELSE Append(Tail(@), now)]
               /\ RecStep(r, IF n = 1 THEN [rq EXCEPT !.pc = "rec_expire"] ELSE AfterIncr(rq))
    /\ UNCHANGED <<lockSide, lockTtl, storeVars, issued, supplyVars>>

\* recordAttemptForKey: await redis.expire(key, windowMs / 1000) on the first attempt
RecExpire(r) ==
    /\ req[r].pc = "rec_expire"
    /\ LET k == ScopeKey(req[r])
       IN IF ~RedisOk
          THEN /\ RecStep(r, Throw(req[r], "REDIS_ERROR"))
               /\ UNCHANGED <<lockTtl, window>>
          ELSE /\ lockTtl' = [lockTtl EXCEPT ![k] = @ \/ lockCnt[k] > 0]
               /\ window' = [window EXCEPT ![k].due =
                                 IF lockCnt[k] > 0 THEN now + WindowLen ELSE @]
               /\ RecStep(r, AfterIncr(req[r]))
    /\ UNCHANGED <<lockSide, lockCnt, storeVars, issued, supplyVars>>

\* recordAttemptForKey: await redis.set(lockoutKey, '1', 'EX', lockoutMs / 1000)
RecSet(r) ==
    /\ req[r].pc = "rec_set"
    /\ LET k == ScopeKey(req[r])
       IN IF ~RedisOk
          THEN /\ RecStep(r, Throw(req[r], "REDIS_ERROR"))
               /\ UNCHANGED locked
          ELSE /\ locked' = [locked EXCEPT ![k] = TRUE]
               /\ RecStep(r, [req[r] EXCEPT !.pc = "rec_del"])
    /\ UNCHANGED <<auxVars, now, redisMode, lockCnt, lockTtl, cacheSession, storeVars, issued, supplyVars>>

\* recordAttemptForKey: await redis.del(key), return locked
RecDel(r) ==
    /\ req[r].pc = "rec_del"
    /\ LET k == ScopeKey(req[r])
       IN IF ~RedisOk
          THEN /\ RecStep(r, Throw(req[r], "REDIS_ERROR"))
               /\ UNCHANGED <<lockCnt, lockTtl, window>>
          ELSE /\ lockCnt' = [lockCnt EXCEPT ![k] = 0]
               /\ lockTtl' = [lockTtl EXCEPT ![k] = FALSE]
               /\ window' = [window EXCEPT ![k] = [due |-> 0, fails |-> <<>>]]
               /\ RecStep(r, RecLocked(req[r]))
    /\ UNCHANGED <<lockSide, storeVars, issued, supplyVars>>

\* a lock key is gone: no request has seen it held since its arrival any more
Unheld(rs, key) ==
    [q \in Req |-> IF rs[q].kind = "login" /\ lockoutKey("email", rs[q].email) = key
                   THEN [rs[q] EXCEPT !.lockHeld = FALSE] ELSE rs[q]]

\* clearLockout: RedisSingleton.getInstance(), await RedisSingleton.ping()
ClrPing(r) ==
    /\ req[r].pc = "clr_ping"
    /\ req' = [req EXCEPT ![r] =
                  IF redisMode = "unconfigured" THEN Throw(@, "SERVICE_UNAVAILABLE")
                  ELSE IF RedisOk THEN [@ EXCEPT !.pc = "clr_del1"]
                  ELSE [@ EXCEPT !.pc = "create_session"]]
    /\ UNCHANGED <<auxVars, now, redisMode, cacheVars, storeVars, tx, issued, supplyVars>>

\* clearLockout: await redis.del(key)
ClrDel1(r) ==
    /\ req[r].pc = "clr_del1"
    /\ LET k == clearLockoutKey(req[r].email)
       IN IF ~RedisOk
          THEN /\ req' = [req EXCEPT ![r] = Throw(@, "REDIS_ERROR")]
               /\ UNCHANGED <<lockCnt, lockTtl, window>>
          ELSE /\ lockCnt' = [lockCnt EXCEPT ![k] = 0]
               /\ lockTtl' = [lockTtl EXCEPT ![k] = FALSE]
               /\ window' = [window EXCEPT ![k] = [due |-> 0, fails |-> <<>>]]
               /\ req' = [req EXCEPT ![r].pc = "clr_del2"]
    /\ UNCHANGED <<lockSide, storeVars, tx, issued, supplyVars>>

\* clearLockout: await redis.del(lockoutKey)
ClrDel2(r) ==
    /\ req[r].pc = "clr_del2"
    /\ LET k == clearLockoutKey(req[r].email)
       IN IF ~RedisOk
          THEN /\ req' = [req EXCEPT ![r] = Throw(@, "REDIS_ERROR")]
               /\ UNCHANGED locked
          ELSE /\ locked' = [locked EXCEPT ![k] = FALSE]
               /\ req' = Unheld([req EXCEPT ![r].pc = "create_session"], k)
    /\ UNCHANGED <<auxVars, now, redisMode, lockCnt, lockTtl, cacheSession, storeVars, tx, issued, supplyVars>>

\* Audit.loginSuccess, uuidv4(), generateTokenSet, await createSession.
\* auditOk = FALSE: the database rejects the INSERT into audit_logs; Audit.log
\* swallows that error, but the transaction is aborted and the INSERT of the
\* session, sent next on the same connection, is refused
CreateSessionWith(r, auditOk) ==
    /\ req[r].pc = "create_session"
    /\ LET sid == nextSid
           jti == Uuid(nextJti)
       IN IF auditOk
          THEN /\ tx' = [tx EXCEPT ![r].sess = createSession(@, sid, req[r].user, jti,
                                                             now + SessionTtl),
                                   ![r].audit = @ \cup {"login_success"}]
               /\ req' = [req EXCEPT ![r] = Return([@ EXCEPT !.sid = sid, !.newJti = jti,
                                                            !.iat = now])]
          ELSE /\ tx' = tx
               /\ req' = [req EXCEPT ![r] = Throw([@ EXCEPT !.auditFailed = TRUE],
                                                 "INTERNAL_ERROR")]
    /\ nextSid' = nextSid + 1
    /\ nextJti' = nextJti + 1
    /\ UNCHANGED <<auxVars, now, redisMode, cacheVars, storeVars, issued, nextReset>>

CreateSession(r) == CreateSessionWith(r, TRUE)

\* the TTL of a counter key runs out
ExpireCounter(k) ==
    /\ lockCnt[k] > 0
    /\ lockTtl[k]
    /\ lockCnt' = [lockCnt EXCEPT ![k] = 0]
    /\ lockTtl' = [lockTtl EXCEPT ![k] = FALSE]
    /\ window' = [window EXCEPT ![k].due = 0]
    /\ UNCHANGED <<lockSide, storeVars, tx, req, issued, supplyVars>>

\* the TTL of a lock key runs out
ExpireLock(k) ==
    /\ locked[k]
    /\ locked' = [locked EXCEPT ![k] = FALSE]
    /\ req' = Unheld(req, k)
    /\ UNCHANGED <<auxVars, now, redisMode, lockCnt, lockTtl, cacheSession, storeVars, tx, issued, supplyVars>>

\* the cache server becomes unreachable, or reachable again
RedisFail ==
    /\ redisMode = "up"
    /\ redisMode' = "down"
    /\ UNCHANGED <<auxVars, now, cacheVars, storeVars, tx, req, issued, supplyVars>>

RedisRecover ==
    /\ redisMode = "down"
    /\ redisMode' = "up"
    /\ UNCHANGED <<auxVars, now, cacheVars, storeVars, tx, req, issued, supplyVars>>

\* the process is restarted with another REDIS_URL (config redis.url, '' by
\* default): a fresh process has no request in flight
Restart(mode) ==
    /\ \A q \in Req : ~Busy(q)
    /\ redisMode # mode
    /\ (mode = "unconfigured") # (redisMode = "unconfigured")
    /\ redisMode' = mode
    /\ UNCHANGED <<auxVars, now, cacheVars, storeVars, tx, req, issued, supplyVars>>

Tick ==
    /\ now < MaxTime
    /\ now' = now + 1
    /\ UNCHANGED <<auxVars, redisMode, cacheVars, storeVars, tx, req, issued, supplyVars>>


\* ------------------------------------------------------------------ refresh
\* POST /refresh arrives with a refresh token (cookie or body), or none
StartRefresh(r, seq, tok) ==
    /\ Admit(r, seq)
    /\ nextJti + InFlight({"login", "refresh"}) <= MaxJti
    /\ req' = [req EXCEPT ![r] = [IdleReq EXCEPT !.kind = "refresh", !.pc = "connect", !.tok = tok]]
    /\ UNCHANGED <<auxVars, now, redisMode, cacheVars, storeVars, tx, issued, supplyVars>>

\* verifyRefreshToken, then await getSessionByRefreshJti(jti)
RfJti(r) ==
    /\ req[r].pc = "rf_jti"
    /\ LET tok == req[r].tok
           v == View(r)
           s == getSessionByRefreshJti(v, tok.jti)
       IN req' = [req EXCEPT ![r] =
                     IF tok = NoTok THEN Throw(@, "MISSING_REFRESH_TOKEN")
                     ELSE IF ~verifyRefreshToken(tok) THEN Throw(@, "INVALID_REFRESH_TOKEN")
                     ELSE IF s = 0 THEN [@ EXCEPT !.pc = "rf_active", !.sid = tok.sid, !.user = tok.sub]
                     ELSE IF v[s].user_id # tok.sub THEN Throw(@, "SESSION_USER_MISMATCH")
                     ELSE [@ EXCEPT !.pc = "rf_user", !.sid = tok.sid, !.user = tok.sub]]
    /\ UNCHANGED <<auxVars, now, redisMode, cacheVars, storeVars, tx, issued, supplyVars>>

\* existingSession && existingSession.refresh_jti !== jti
reuseDetected(v, e, jti) == e # 0 /\ v[e].refresh_jti # jti

\* jti not found: await getActiveSession(sid); reuse detected or SESSION_NOT_FOUND
RfActive(r) ==
    /\ req[r].pc = "rf_active"
    /\ LET v == View(r)
           e == getActiveSession(v, req[r].sid, NOW(r))
       IN IF reuseDetected(v, e, req[r].tok.jti)
          THEN /\ req' = [req EXCEPT ![r].pc = "rf_revoke"]
               /\ tx' = [tx EXCEPT ![r].audit = @ \cup {"token_reuse_detected"}]
          ELSE /\ req' = [req EXCEPT ![r] = Throw(@, "SESSION_NOT_FOUND")]
               /\ UNCHANGED tx
    /\ UNCHANGED <<auxVars, now, redisMode, cacheVars, storeVars, issued, supplyVars>>

\* await revokeAllUserSessions(userId, 'token_reuse')
RfRevoke(r) ==
    /\ req[r].pc = "rf_revoke"
    /\ ~RowLocked(r, revokeAllTargets(View(r), req[r].user, 0))
    /\ tx' = [tx EXCEPT ![r].sess =
                 revokeAllUserSessions(View(r), @, req[r].user, "token_reuse", 0, NOW(r))]
    /\ req' = [req EXCEPT ![r].pc = "rf_rping"]
    /\ UNCHANGED <<auxVars, now, redisMode, cacheVars, storeVars, issued, supplyVars>>

\* RedisSingleton.getInstance(), await RedisSingleton.ping()
RfRPing(r) ==
    /\ req[r].pc = "rf_rping"
    /\ req' = [req EXCEPT ![r] =
                  IF redisMode = "unconfigured" THEN Throw(@, "SERVICE_UNAVAILABLE")
                  ELSE IF RedisOk THEN [@ EXCEPT !.pc = "rf_rdel1"]
                  ELSE Throw(@, "TOKEN_REUSE_DETECTED")]
    /\ UNCHANGED <<auxVars, now, redisMode, cacheVars, storeVars, tx, issued, supplyVars>>

\* await redis.del(`session:${sid}`)
RfRDel1(r) ==
    /\ req[r].pc = "rf_rdel1"
    /\ IF ~RedisOk
       THEN /\ req' = [req EXCEPT ![r] = Throw(@, "REDIS_ERROR")]
            /\ UNCHANGED cacheSession
       ELSE /\ cacheSession' = cacheSession \ {req[r].sid}
            /\ req' = [req EXCEPT ![r].pc = "rf_rdel2"]
    /\ UNCHANGED <<auxVars, now, redisMode, lockCnt, lockTtl, locked, storeVars, tx, issued, supplyVars>>

\* await redis.del(`user:${userId}`), then throw TOKEN_REUSE_DETECTED
RfRDel2(r) ==
    /\ req[r].pc = "rf_rdel2"
    /\ req' = [req EXCEPT ![r] =
                  IF ~RedisOk THEN Throw(@, "REDIS_ERROR") ELSE Throw(@, "TOKEN_REUSE_DETECTED")]
    /\ UNCHANGED <<auxVars, now, redisMode, cacheVars, storeVars, tx, issued, supplyVars>>

\* await getUserById(userId); generateAccessToken, generateRefreshToken
RfUser(r) ==
    /\ req[r].pc = "rf_user"
    /\ IF getUserById(req[r].user) = "none"
       THEN /\ req' = [req EXCEPT ![r] = Throw(@, "USER_NOT_FOUND")]
            /\ UNCHANGED nextJti
       ELSE /\ req' = [req EXCEPT ![r].pc = "rf_rotate", ![r].newJti = Uuid(nextJti), ![r].iat = now]
            /\ nextJti' = nextJti + 1
    /\ UNCHANGED <<auxVars, now, redisMode, cacheVars, storeVars, tx, issued, nextSid, nextReset>>

\* await rotateRefreshToken(sid, newJti); Audit.tokenRefresh
RfRotate(r) ==
    /\ req[r].pc = "rf_rotate"
    /\ ~RowLocked(r, rotateTargets(View(r), req[r].sid))
    /\ tx' = [tx EXCEPT ![r].sess = rotateRefreshToken(View(r), @, req[r].sid, req[r].newJti),
                        ![r].audit = @ \cup {"token_refresh"}]
    /\ req' = [req EXCEPT ![r].pc = "rf_cping"]
    /\ UNCHANGED <<auxVars, now, redisMode, cacheVars, storeVars, issued, supplyVars>>

\* RedisSingleton.getInstance(), await RedisSingleton.ping()
RfCPing(r) ==
    /\ req[r].pc = "rf_cping"
    /\ req' = [req EXCEPT ![r] =
                  IF redisMode = "unconfigured" THEN Throw(@, "SERVICE_UNAVAILABLE")
                  ELSE IF RedisOk THEN [@ EXCEPT !.pc = "rf_cset"]
                  ELSE Return(@)]
    /\ UNCHANGED <<auxVars, now, redisMode, cacheVars, storeVars, tx, issued, supplyVars>>

\* await redis.set(`session:${sid}`, 'active', 'EX', 600)
RfCSet(r) ==
    /\ req[r].pc = "rf_cset"
    /\ IF ~RedisOk
       THEN /\ req' = [req EXCEPT ![r] = Throw(@, "REDIS_ERROR")]
            /\ UNCHANGED cacheSession
       ELSE /\ cacheSession' = cacheSession \cup {req[r].sid}
            /\ req' = [req EXCEPT ![r] = Return(@)]
    /\ UNCHANGED <<auxVars, now, redisMode, lockCnt, lockTtl, locked, storeVars, tx, issued, supplyVars>>

\* the TTL of a session:<sid> key runs out
ExpireCacheSession(s) ==
    /\ s \in cacheSession
    /\ cacheSession' = cacheSession \ {s}
    /\ UNCHANGED <<auxVars, now, redisMode, lockCnt, lockTtl, locked, storeVars, tx, req, issued, supplyVars>>

\* ---------------------------------------------------------- auth middleware
\* the middleware passes the error to next(): no unit of work was opened
\* (history: the decision, and what verifyAccessToken says of the token then)
Reject(rq, code) ==
    Respond([rq EXCEPT !.authed = "reject", !.valid = verifyAccessToken(rq.tok)], code)

\* verifyAccessToken(token); on success req.user and req.sessionId are set
AuthVerify(rq) ==
    IF rq.tok = NoTok THEN Reject(rq, "NO_TOKEN")
    ELSE IF ~verifyAccessToken(rq.tok) THEN Reject(rq, "INVALID_TOKEN")
    ELSE [rq EXCEPT !.pc = "connect", !.user = rq.tok.sub, !.sid = rq.tok.sid,
                    !.authed = "accept", !.valid = TRUE]

\* GET /me or POST /logout arrives, carrying a token or none
StartAuthed(r, seq, kind, tok) ==
    /\ Admit(r, seq)
    /\ req' = [req EXCEPT ![r] =
                  IF tok = NoTok THEN Reject([IdleReq EXCEPT !.kind = kind], "NO_TOKEN")
                  ELSE [IdleReq EXCEPT !.kind = kind, !.pc = "au_inst", !.tok = tok]]
    /\ UNCHANGED <<auxVars, now, redisMode, cacheVars, storeVars, tx, issued, supplyVars>>

\* AuthCache.getInstance(); cache.isBlacklisted: await this.isAvailable()
AuInst(r) ==
    /\ req[r].pc = "au_inst"
    /\ req' = [req EXCEPT ![r] =
                  IF redisMode = "unconfigured" THEN Reject(@, "SERVICE_UNAVAILABLE")
                  ELSE IF RedisOk THEN [@ EXCEPT !.pc = "au_get"]
                  ELSE AuthVerify(@)]
    /\ UNCHANGED <<auxVars, now, redisMode, cacheVars, storeVars, tx, issued, supplyVars>>

\* blacklist:<token> keys; blacklistAccessToken has no caller, so none is ever set
isBlacklisted(tok) == FALSE

\* cache.isBlacklisted: await this.redis.get(key)
AuGet(r) ==
    /\ req[r].pc = "au_get"
    /\ req' = [req EXCEPT ![r] =
                  IF ~RedisOk THEN Reject(@, "REDIS_ERROR")
                  ELSE IF isBlacklisted(@.tok) THEN Reject(@, "TOKEN_REVOKED")
                  ELSE AuthVerify(@)]
    /\ UNCHANGED <<auxVars, now, redisMode, cacheVars, storeVars, tx, issued, supplyVars>>

\* ------------------------------------------------------------------- logout
\* Audit.logout; await revokeSession(sessionId, 'logout')
LoRevoke(r) ==
    /\ req[r].pc = "lo_revoke"
    /\ ~RowLocked(r, revokeTargets(View(r), req[r].sid))
    /\ tx' = [tx EXCEPT ![r].sess = revokeSession(View(r), @, req[r].sid, "logout", NOW(r)),
                        ![r].audit = @ \cup {"logout"}]
    /\ req' = [req EXCEPT ![r].pc = "lo_ping"]
    /\ UNCHANGED <<auxVars, now, redisMode, cacheVars, storeVars, issued, supplyVars>>

\* RedisSingleton.getInstance(), await RedisSingleton.ping()
LoPing(r) ==
    /\ req[r].pc = "lo_ping"
    /\ req' = [req EXCEPT ![r] =
                  IF redisMode = "unconfigured" THEN Throw(@, "SERVICE_UNAVAILABLE")
                  ELSE IF RedisOk THEN [@ EXCEPT !.pc = "lo_del"]
                  ELSE Return(@)]
    /\ UNCHANGED <<auxVars, now, redisMode, cacheVars, storeVars, tx, issued, supplyVars>>

\* await redis.del(`session:${sessionId}`)
LoDel(r) ==
    /\ req[r].pc = "lo_del"
    /\ IF ~RedisOk
       THEN /\ req' = [req EXCEPT ![r] = Throw(@, "REDIS_ERROR")]
            /\ UNCHANGED cacheSession
       ELSE /\ cacheSession' = cacheSession \ {req[r].sid}
            /\ req' = [req EXCEPT ![r] = Return(@)]
    /\ UNCHANGED <<auxVars, now, redisMode, lockCnt, lockTtl, locked, storeVars, tx, issued, supplyVars>>


\* ----------------------------------------------------------- password reset
ResetRow(userId, expiresAt) ==
    [status |-> "token", user_id |-> userId, used |-> FALSE, expires_at |-> expiresAt]

\* POST /password-reset/request arrives
StartResetRequest(r, seq, e) ==
    /\ Admit(r, seq)
    /\ nextReset + InFlight({"resetreq"}) <= MaxResetTokens
    /\ req' = [req EXCEPT ![r] = [IdleReq EXCEPT !.kind = "resetreq", !.pc = "connect", !.email = e]]
    /\ UNCHANGED <<auxVars, now, redisMode, cacheVars, storeVars, tx, issued, supplyVars>>

\* Audit.passwordResetRequest; SELECT user_id FROM users WHERE email = lower($1) AND disabled = false
RqFind(r) ==
    /\ req[r].pc = "rq_find"
    /\ LET u == getUserByEmail(toLowerCase(req[r].email))
       IN req' = [req EXCEPT ![r] =
                     IF u = "none" THEN Return(@) ELSE [@ EXCEPT !.user = u, !.pc = "rq_delete"]]
    /\ tx' = [tx EXCEPT ![r].audit = @ \cup {"password_reset_request"}]
    /\ UNCHANGED <<auxVars, now, redisMode, cacheVars, storeVars, issued, supplyVars>>

userResetTokens(v, userId) == {t \in ResetIds : v[t].status = "token" /\ v[t].user_id = userId}

\* DELETE FROM password_reset_tokens WHERE user_id = $1
RqDelete(r) ==
    /\ req[r].pc = "rq_delete"
    /\ LET del == userResetTokens(ResetView(r), req[r].user)
       IN /\ ~ResetLocked(r, del)
          /\ tx' = [tx EXCEPT ![r].reset = [t \in ResetIds |-> IF t \in del THEN NoRow ELSE @[t]]]
    /\ req' = [req EXCEPT ![r].pc = "rq_insert"]
    /\ UNCHANGED <<auxVars, now, redisMode, cacheVars, storeVars, issued, supplyVars>>

\* generateResetToken; db.insert('password_reset_tokens', ...)
RqInsert(r) ==
    /\ req[r].pc = "rq_insert"
    /\ tx' = [tx EXCEPT ![r].reset[nextReset] = ResetRow(req[r].user, now + ResetTtl)]
    /\ req' = [req EXCEPT ![r] = Return([@ EXCEPT !.rtok = nextReset])]
    /\ nextReset' = nextReset + 1
    /\ UNCHANGED <<auxVars, now, redisMode, cacheVars, storeVars, issued, nextSid, nextJti>>

\* POST /password-reset/complete arrives with a token string
StartReset(r, seq, t) ==
    /\ Admit(r, seq)
    /\ req' = [req EXCEPT ![r] = [IdleReq EXCEPT !.kind = "reset", !.pc = "connect", !.rtok = t]]
    /\ UNCHANGED <<auxVars, now, redisMode, cacheVars, storeVars, tx, issued, supplyVars>>

\* validateResetToken: found, not used, not expired
validResetToken(v, t) ==
    /\ t \in ResetIds
    /\ v[t].status = "token"
    /\ ~v[t].used
    /\ ~(v[t].expires_at < now)

\* completePasswordReset: await validateResetToken; db.beginTransaction()
RsValidate(r) ==
    /\ req[r].pc = "rs_validate"
    /\ LET v == ResetView(r)
           t == req[r].rtok
       IN req' = [req EXCEPT ![r] =
                     IF validResetToken(v, t)
                     THEN [@ EXCEPT !.user = v[t].user_id, !.pc = "rs_mark"]
                     ELSE Throw(@, "INVALID_RESET_TOKEN")]
    /\ UNCHANGED <<auxVars, now, redisMode, cacheVars, storeVars, tx, issued, supplyVars>>

\* UPDATE password_reset_tokens SET used_at = NOW() WHERE token_hash = $1
RsMark(r) ==
    /\ req[r].pc = "rs_mark"
    /\ LET v == ResetView(r)
           t == req[r].rtok
           hit == {x \in {t} : v[x].status = "token"}
       IN /\ ~ResetLocked(r, hit)
          /\ tx' = [tx EXCEPT ![r].reset =
                       [x \in ResetIds |-> IF x \in hit THEN [v[x] EXCEPT !.used = TRUE] ELSE @[x]]]
    /\ req' = [req EXCEPT ![r].pc = "rs_pw"]
    /\ UNCHANGED <<auxVars, now, redisMode, cacheVars, storeVars, issued, supplyVars>>

\* UPDATE users SET password = $1 WHERE user_id = $2
RsPassword(r) ==
    /\ req[r].pc = "rs_pw"
    /\ \A q \in Req \ {r} : req[r].user \notin tx[q].pw
    /\ tx' = [tx EXCEPT ![r].pw = @ \cup {req[r].user}]
    /\ req' = [req EXCEPT ![r].pc = "rs_revoke"]
    /\ UNCHANGED <<auxVars, now, redisMode, cacheVars, storeVars, issued, supplyVars>>

\* await revokeAllUserSessions(userId, 'password_change')
RsRevoke(r) ==
    /\ req[r].pc = "rs_revoke"
    /\ ~RowLocked(r, revokeAllTargets(View(r), req[r].user, 0))
    /\ tx' = [tx EXCEPT ![r].sess =
                 revokeAllUserSessions(View(r), @, req[r].user, "password_change", 0, NOW(r))]
    /\ req' = [req EXCEPT ![r].pc = "rs_commit"]
    /\ UNCHANGED <<auxVars, now, redisMode, cacheVars, storeVars, issued, supplyVars>>

\* completePasswordReset: await db.commit(); the handler then returns
RsCommit(r) ==
    /\ req[r].pc = "rs_commit"
    /\ CommitStore(r)
    /\ tx' = [tx EXCEPT ![r] = EmptyTx]
    /\ req' = [req EXCEPT ![r] = Return(@)]
    /\ UNCHANGED <<auxVars, now, redisMode, cacheVars, issued, supplyVars>>

\* -------------------------------------------------------------------- expiry
\* cleanupExpiredSessions, run as one statement of its own; seq = TRUE runs
\* it only between requests
ExpireStale(seq) ==
    /\ seq => \A q \in Req : ~Busy(q)
    /\ expiredTargets(sessions, now) # {}
    /\ ~RowLocked(0, expiredTargets(sessions, now))
    /\ sessions' = cleanupExpiredSessions(sessions, now)
    /\ UNCHANGED <<auxVars, now, redisMode, cacheVars, resetTokens, audit, pwVersion, tx, req, issued, supplyVars>>

\* RETENTION.revokedSessions and RETENTION.expiredSessions, in clock steps
RetentionRevoked == 2
RetentionExpired == 1

\* the variant that deletes terminal sessions whatever their age
cleanupTargets_anyAge(v, t) ==
    {s \in Sids : v[s].status \in {"revoked", "expired"}}

\* rows hit by the two DELETE FROM user_sessions of runCleanup
cleanupTargets(v, t) ==
    {s \in Sids : \/ v[s].status = "revoked" /\ v[s].revoked_at < t - RetentionRevoked
                  \/ v[s].status = "expired" /\ v[s].expires_at < t - RetentionExpired}

\* the variant that leaves expired tokens that were never used
cleanupResetTargets_usedOnly(v, t) ==
    {x \in ResetIds : v[x].status = "token" /\ v[x].used}

\* rows hit by DELETE FROM password_reset_tokens WHERE used_at IS NOT NULL OR expires_at < NOW()
cleanupResetTargets(v, t) ==
    {x \in ResetIds : v[x].status = "token" /\ (v[x].used \/ v[x].expires_at < t)}

\* runCleanup, in a transaction of its own: the deletes, then commit
RunCleanup ==
    /\ \A q \in Req : ~Busy(q)
    /\ sessions' = [s \in Sids |-> IF s \in cleanupTargets(sessions, now) THEN NoRow
                                   ELSE sessions[s]]
    /\ resetTokens' = [x \in ResetIds |-> IF x \in cleanupResetTargets(resetTokens, now)
                                          THEN NoRow ELSE resetTokens[x]]
    /\ cleanupAt' = now
    /\ UNCHANGED <<legacyVars, uow, window, revokeCall, envVars, now, redisMode, cacheVars, audit, pwVersion, tx, req,
                   issued, supplyVars>>

\* ------------------------------------------------------------ specifications
UnitOfWork(r) == Connect(r) \/ Commit(r) \/ Rollback(r)

LockoutCheck(r) == ChkPing(r) \/ ChkLock(r) \/ ChkCnt(r)

LoginSuccess(r) == GetUser(r) \/ ClrPing(r) \/ ClrDel1(r) \/ ClrDel2(r) \/ CreateSession(r)

\* (RecTtl, the record that finds the lock already set, is listed apart: it
\* needs a lock the preceding check did not see)
LoginFailure(r) ==
    \/ ChkTtl(r) \/ RecPing(r) \/ RecLock(r) \/ RecIncr(r)
    \/ RecExpire(r) \/ RecSet(r) \/ RecDel(r)

Rotation(r) == RfJti(r) \/ RfUser(r) \/ RfRotate(r) \/ RfCPing(r) \/ RfCSet(r)

ReuseResponse(r) == RfActive(r) \/ RfRevoke(r) \/ RfRPing(r) \/ RfRDel1(r) \/ RfRDel2(r)

Authenticate(r) == AuInst(r) \/ AuGet(r)

Logout(r) == LoRevoke(r) \/ LoPing(r) \/ LoDel(r)

ResetRequest(r) == RqFind(r) \/ RqDelete(r) \/ RqInsert(r)

ResetComplete(r) == RsValidate(r) \/ RsMark(r) \/ RsPassword(r) \/ RsRevoke(r) \/ RsCommit(r)

RefreshTokens == {t \in issued : t.typ = "refresh"}
AccessTokens == {t \in issued : t.typ = "access"}

InitUp == Init /\ redisMode = "up"
InitConfigured == Init /\ redisMode \in {"up", "down"}

\* the session lifecycle, one request at a time, cache reachable
NextSeq ==
    \/ \E r \in Req :
          \/ StartLogin(r, TRUE, "a1", "good", NoIp)
          \/ \E t \in RefreshTokens : StartRefresh(r, TRUE, t)
          \/ \E t \in AccessTokens : StartAuthed(r, TRUE, "logout", t)
          \/ UnitOfWork(r) \/ LockoutCheck(r) \/ LoginSuccess(r)
          \/ Rotation(r) \/ ReuseResponse(r) \/ Authenticate(r) \/ Logout(r)
    \/ Tick
    \/ ExpireStale(TRUE)

SpecSeq == InitUp /\ [][NextSeq]_vars

\* concurrent logins and refreshes, cache reachable
NextRace ==
    \/ \E r \in Req :
          \/ StartLogin(r, FALSE, "a1", "good", NoIp)
          \/ \E t \in RefreshTokens : StartRefresh(r, FALSE, t)
          \/ UnitOfWork(r) \/ LockoutCheck(r) \/ LoginSuccess(r)
          \/ Rotation(r) \/ ReuseResponse(r)
    \/ \E s \in Sids : ExpireCacheSession(s)
    \/ Tick

SpecRace == InitUp /\ [][NextRace]_vars

\* the lockout guard with a cache that fails and recovers: logins for one
\* account, one at a time
NextFailOpen ==
    \/ \E r \in Req :
          \/ \E e \in {"a1", "A1"}, pw \in {"good", "bad"} : StartLogin(r, TRUE, e, pw, NoIp)
          \/ UnitOfWork(r) \/ LockoutCheck(r) \/ LoginSuccess(r) \/ LoginFailure(r)
          \/ RecTtl(r)
    \/ \E k \in LockKeys : ExpireCounter(k) \/ ExpireLock(k)
    \/ RedisFail
    \/ RedisRecover

SpecFailOpen == InitConfigured /\ [][NextFailOpen]_vars

\* the lockout guard over two accounts and one origin, cache reachable
NextLockout ==
    \/ \E r \in Req :
          \/ \E pw \in {"good", "bad"} : StartLogin(r, TRUE, "a1", pw, "ip1")
          \/ StartLogin(r, TRUE, "a2", "bad", "ip1")
          \/ UnitOfWork(r) \/ LockoutCheck(r) \/ LoginSuccess(r) \/ LoginFailure(r)
    \/ \E k \in LockKeys : ExpireCounter(k) \/ ExpireLock(k)

SpecLockout == InitUp /\ [][NextLockout]_vars

\* password reset next to logins and logouts, one request at a time
NextReset ==
    \/ \E r \in Req :
          \/ StartLogin(r, TRUE, "a1", "good", NoIp)
          \/ \E t \in AccessTokens : StartAuthed(r, TRUE, "logout", t)
          \/ \E e \in {"a1", "A1", "zz"} : StartResetRequest(r, TRUE, e)
          \/ \E t \in ResetIds : StartReset(r, TRUE, t)
          \/ UnitOfWork(r) \/ LockoutCheck(r) \/ LoginSuccess(r)
          \/ Authenticate(r) \/ Logout(r) \/ ResetRequest(r) \/ ResetComplete(r)
    \/ Tick

SpecReset == InitUp /\ [][NextReset]_vars

\* the access-token middleware under every cache configuration
NextAuth ==
    \/ \E r \in Req :
          \/ StartLogin(r, TRUE, "a1", "good", NoIp)
          \/ \E k \in {"me", "logout"}, t \in issued \cup {NoTok} : StartAuthed(r, TRUE, k, t)
          \/ UnitOfWork(r) \/ LockoutCheck(r) \/ LoginSuccess(r)
          \/ Authenticate(r) \/ Logout(r)
    \/ \E m \in {"up", "unconfigured"} : Restart(m)
    \/ RedisFail
    \/ RedisRecover

SpecAuth == Init /\ [][NextAuth]_vars

\* every token the service has issued presented to the middleware and to the
\* refresh endpoint, requests overlapping
NextKind ==
    \E r \in Req :
        \/ StartLogin(r, FALSE, "a1", "good", NoIp)
        \/ \E t \in issued : StartAuthed(r, FALSE, "me", t) \/ StartRefresh(r, FALSE, t)
        \/ UnitOfWork(r) \/ LockoutCheck(r) \/ LoginSuccess(r)
        \/ Authenticate(r) \/ Rotation(r) \/ ReuseResponse(r)

SpecKind == InitUp /\ [][NextKind]_vars

\* sessions created and ended one request at a time, the clock, and the
\* scheduled cleanup
NextSweep ==
    \/ \E r \in Req :
          \/ StartLogin(r, TRUE, "a1", "good", NoIp)
          \/ \E t \in AccessTokens : StartAuthed(r, TRUE, "logout", t)
          \/ Connect(r) \/ Commit(r) \/ LockoutCheck(r) \/ LoginSuccess(r)
          \/ Authenticate(r) \/ Logout(r)
    \/ Tick
    \/ RunCleanup

SpecSweep == InitUp /\ [][NextSweep]_vars

\* logins, rotations and replays one request at a time, the cache server
\* failing and recovering
NextReuse ==
    \/ \E r \in Req :
          \/ StartLogin(r, TRUE, "a1", "good", NoIp)
          \/ \E t \in RefreshTokens : StartRefresh(r, TRUE, t)
          \/ UnitOfWork(r) \/ LockoutCheck(r) \/ LoginSuccess(r)
          \/ Rotation(r) \/ ReuseResponse(r)
    \/ RedisFail
    \/ RedisRecover

SpecReuse == InitUp /\ [][NextReuse]_vars

\* logins whose audit entry the database may refuse
NextAudit ==
    \E r \in Req :
        \/ StartLogin(r, FALSE, "a1", "good", NoIp)
        \/ UnitOfWork(r) \/ LockoutCheck(r)
        \/ GetUser(r) \/ ClrPing(r) \/ ClrDel1(r) \/ ClrDel2(r)
        \/ \E ok \in BOOLEAN : CreateSessionWith(r, ok)

SpecAudit == InitUp /\ [][NextAudit]_vars

\* ------------------------------------------ validation cache (AuthCache)
mainVars == <<now, redisMode, cacheVars, storeVars, tx, req, issued, supplyVars, uow, cleanupAt,
             window, revokeCall, envVars>>

VerifyBusy(r) == lreq[r].pc \notin {"idle", "done"}

\* the locals of a request that has stopped reading them
Joined(rq) == [rq EXCEPT !.session = FALSE, !.email = "zz", !.status = "invalid"]

VerifyDone(rq, out) == [Joined(rq) EXCEPT !.pc = "done", !.out = out, !.redisAvailable = FALSE]

\* a request with a signed sid reaches authMiddleware: new AuthCache(key, db, tokens)
StartVerify(r, k, s, e, st) ==
    /\ ~VerifyBusy(r)
    /\ nextPromise + Cardinality({q \in Req : VerifyBusy(q) /\ lreq[q].promise = 0})
          <= MaxValidations
    /\ lreq' = [lreq EXCEPT ![r] = [IdleVerify EXCEPT !.pc = "v_session", !.key = k,
                                      !.session = s, !.email = e, !.status = st]]
    /\ UNCHANGED <<mainVars, inProgressValidation, promises, verifyCache, nextPromise>>

\* execute: this.refreshTokenData = await this.verifyRefreshToken()
VSession(r) ==
    /\ lreq[r].pc = "v_session"
    /\ lreq' = [lreq EXCEPT ![r] = IF @.session THEN [@ EXCEPT !.pc = "v_ping"]
                                   ELSE VerifyDone(@, "UNAUTHORIZED")]
    /\ UNCHANGED <<mainVars, inProgressValidation, promises, verifyCache, nextPromise>>

\* execute: RedisSingleton.getInstance(), await RedisSingleton.ping()
VPing(r) ==
    /\ lreq[r].pc = "v_ping"
    /\ lreq' = [lreq EXCEPT ![r] =
                   IF redisMode = "unconfigured" THEN VerifyDone(@, "SERVICE_UNAVAILABLE")
                   ELSE IF RedisOk THEN [@ EXCEPT !.redisAvailable = TRUE, !.pc = "v_get"]
                   ELSE [@ EXCEPT !.pc = "v_join"]]
    /\ UNCHANGED <<mainVars, inProgressValidation, promises, verifyCache, nextPromise>>

\* execute: await redis.get('verify:' + key); a hit answers the request
VGet(r) ==
    /\ lreq[r].pc = "v_get"
    /\ lreq' = [lreq EXCEPT ![r] =
                   IF ~RedisOk THEN VerifyDone(@, "REDIS_ERROR")
                   ELSE IF @.key \in verifyCache THEN VerifyDone(@, "OK")
                   ELSE [@ EXCEPT !.pc = "v_join"]]
    /\ UNCHANGED <<mainVars, inProgressValidation, promises, verifyCache, nextPromise>>

\* inProgressValidation.get(key), with the variant that never finds an entry
lookupValidation_miss(map, k) == 0

lookupValidation(map, k) == map[k]

\* execute: let promise = inProgressValidation.get(key); if (!promise) { promise =
\* this.validateTokens(res).finally(...); inProgressValidation.set(key, promise) }
VJoin(r) ==
    /\ lreq[r].pc = "v_join"
    /\ LET found == lookupValidation(inProgressValidation, lreq[r].key)
       IN IF found # 0
          THEN /\ lreq' = [lreq EXCEPT ![r] = [Joined(@) EXCEPT !.promise = found,
                                                                !.pc = "v_await"]]
               /\ UNCHANGED <<inProgressValidation, promises, nextPromise>>
          ELSE /\ nextPromise <= MaxValidations
               /\ promises' = [promises EXCEPT ![nextPromise] =
                                  [state |-> "pending", key |-> lreq[r].key,
                                   email |-> lreq[r].email, status |-> lreq[r].status]]
               /\ inProgressValidation' =
                     [inProgressValidation EXCEPT ![lreq[r].key] = nextPromise]
               /\ nextPromise' = nextPromise + 1
               /\ lreq' = [lreq EXCEPT ![r] = [Joined(@) EXCEPT !.promise = nextPromise,
                                                                !.started = TRUE,
                                                                !.pc = "v_await"]]
    /\ UNCHANGED <<mainVars, verifyCache>>

\* validateTokens: the outcome of one validation
validateTokens(pr) ==
    IF getUserByEmail(pr.email) = "none" \/ pr.status = "invalid" THEN "rejected" ELSE "resolved"

\* the map after a validation settles, with the variant that keeps the entry
\* of a failed validation
settleEntry_keepFailed(map, pr) ==
    IF validateTokens(pr) = "rejected" THEN map ELSE [map EXCEPT ![pr.key] = 0]

\* validateTokens' finally and the promise's .finally: inProgressValidation.delete(key)
settleEntry(map, pr) == [map EXCEPT ![pr.key] = 0]

\* validateTokens resumes after await getUserByEmail and settles its promise
ValSettle(p) ==
    /\ promises[p].state = "pending"
    /\ promises' = [promises EXCEPT ![p] = [state |-> validateTokens(@), key |-> @.key,
                                             email |-> "zz", status |-> "invalid"]]
    /\ inProgressValidation' = settleEntry(inProgressValidation, promises[p])
    /\ UNCHANGED <<mainVars, verifyCache, lreq, nextPromise>>

\* execute: const cachedUser = await promise
VAwait(r) ==
    /\ lreq[r].pc = "v_await"
    /\ promises[lreq[r].promise].state # "pending"
    /\ lreq' = [lreq EXCEPT ![r] =
                   IF promises[@.promise].state = "rejected" THEN VerifyDone(@, "UNAUTHORIZED")
                   ELSE IF @.redisAvailable THEN [@ EXCEPT !.pc = "v_set"]
                   ELSE VerifyDone(@, "OK")]
    /\ UNCHANGED <<mainVars, inProgressValidation, promises, verifyCache, nextPromise>>

\* execute: await redis.set('verify:' + key, ..., 'EX', TTL_SECONDS)
VSet(r) ==
    /\ lreq[r].pc = "v_set"
    /\ IF ~RedisOk
       THEN /\ lreq' = [lreq EXCEPT ![r] = VerifyDone(@, "REDIS_ERROR")]
            /\ UNCHANGED verifyCache
       ELSE /\ verifyCache' = verifyCache \cup {lreq[r].key}
            /\ lreq' = [lreq EXCEPT ![r] = VerifyDone(@, "OK")]
    /\ UNCHANGED <<mainVars, inProgressValidation, promises, nextPromise>>

\* the TTL of a verify:<key> entry runs out
ExpireVerify(k) ==
    /\ k \in verifyCache
    /\ verifyCache' = verifyCache \ {k}
    /\ UNCHANGED <<mainVars, inProgressValidation, promises, lreq, nextPromise>>

Execute(r) == VSession(r) \/ VPing(r) \/ VGet(r) \/ VJoin(r) \/ VAwait(r) \/ VSet(r)

NextVerify ==
    \/ \E r \in Req :
          \/ \E k \in Sids, s \in BOOLEAN, st \in {"valid", "invalid"} :
                StartVerify(r, k, s, "a1", st)
          \/ Execute(r)
    \/ \E p \in PromiseIds : ValSettle(p)
    \/ \E k \in Sids : ExpireVerify(k)
    \/ RedisFail
    \/ RedisRecover

SpecVerify == Init /\ [][NextVerify]_vars

\* a validation that has started reaches the end of its database query
SpecVerifyFair == SpecVerify /\ \A p \in PromiseIds : WF_vars(ValSettle(p))

\* ------------------------------------------- unit of work (handleRequest)
storeSide ==
    <<legacyVars, cleanupAt, window, revokeCall, envVars, now, redisMode, cacheVars, storeVars, tx, req, issued,
      supplyVars>>

Sent(d, ev) == [d EXCEPT !.log = Append(@, ev)]

\* DB.commit: a failed COMMIT throws and leaves inTransaction set
dbCommit(d, ok) ==
    IF ~d.client THEN d
    ELSE IF ~d.inTransaction THEN d
    ELSE IF ok THEN [Sent(d, "COMMIT") EXCEPT !.inTransaction = FALSE]
    ELSE Sent(d, "COMMIT_FAILED")

dbCommitThrows(d, ok) == ~d.client \/ (d.inTransaction /\ ~ok)

\* DB.rollback: a failed ROLLBACK is logged and swallowed
dbRollback(d, ok) ==
    IF ~d.client \/ ~d.inTransaction THEN d
    ELSE [Sent(d, IF ok THEN "ROLLBACK" ELSE "ROLLBACK_FAILED") EXCEPT !.inTransaction = FALSE]

\* DB.release: the ROLLBACK of a transaction still open is handed to the
\* client and not awaited (ROLLBACK_QUEUED), client.release() follows at once
dbRelease(d) ==
    IF d.released THEN d
    ELSE LET e == IF d.client /\ d.inTransaction THEN Sent(d, "ROLLBACK_QUEUED") ELSE d
             f == IF d.client THEN [Sent(e, "RELEASE") EXCEPT !.client = FALSE] ELSE e
         IN [f EXCEPT !.released = TRUE, !.inTransaction = FALSE]

\* a request reaches handleRequest: const db = new DB()
StartUow(r, k) ==
    /\ uow[r].pc \in {"idle", "done"}
    /\ uow' = [uow EXCEPT ![r] = [IdleUow EXCEPT !.pc = "u_pool", !.kind = k]]
    /\ UNCHANGED storeSide

\* DB.connect: this.client = await POOL.connect()
UPool(r, ok) ==
    /\ uow[r].pc = "u_pool"
    /\ uow' = [uow EXCEPT ![r] =
                  IF ok THEN [@ EXCEPT !.db = [Sent(@, "ACQUIRE") EXCEPT !.client = TRUE],
                                       !.pc = "u_begin"]
                  ELSE [@ EXCEPT !.pc = "u_catch"]]
    /\ UNCHANGED storeSide

\* DB.connect: await this.client.query('BEGIN'); this.inTransaction = true
UBegin(r, ok) ==
    /\ uow[r].pc = "u_begin"
    /\ uow' = [uow EXCEPT ![r] =
                  IF ok THEN [@ EXCEPT !.db = [Sent(@, "BEGIN") EXCEPT !.inTransaction = TRUE],
                                       !.pc = "u_handler"]
                  ELSE [@ EXCEPT !.db = Sent(@, "BEGIN_FAILED"), !.pc = "u_catch"]]
    /\ UNCHANGED storeSide

HandlerReturns(u) == [u EXCEPT !.db = Sent(@, "RETURN"), !.pc = "u_commit"]

HandlerThrows(u) == [u EXCEPT !.db = Sent(@, "THROW"), !.pc = "u_catch"]

\* handleRequest: const result = await fn(req, res); resetPassword's first step
\* is validateResetToken
UHandler(r, ok) ==
    /\ uow[r].pc = "u_handler"
    /\ uow' = [uow EXCEPT ![r] =
                  LET h == [@ EXCEPT !.db = Sent(@, "HANDLER")]
                  IN IF ~ok THEN HandlerThrows(h)
                     ELSE IF h.kind = "reset" THEN [h EXCEPT !.pc = "h_write"]
                     ELSE IF h.kind = "query" THEN [h EXCEPT !.pc = "h_query"]
                     ELSE HandlerReturns(h)]
    /\ UNCHANGED storeSide

\* completePasswordReset: db.beginTransaction() (a warning when the transaction
\* is open), then the two UPDATEs and revokeAllUserSessions
UWrite(r, ok) ==
    /\ uow[r].pc = "h_write"
    /\ uow' = [uow EXCEPT ![r].pc = IF ok THEN "h_commit" ELSE "h_rollback"]
    /\ UNCHANGED storeSide

\* completePasswordReset: await db.commit()
UInnerCommit(r, ok) ==
    /\ uow[r].pc = "h_commit"
    /\ uow' = [uow EXCEPT ![r] =
                  LET h == [@ EXCEPT !.db = dbCommit(@, ok)]
                  IN IF dbCommitThrows(uow[r].db, ok) THEN [h EXCEPT !.pc = "h_rollback"]
                     ELSE HandlerReturns(h)]
    /\ UNCHANGED storeSide

\* completePasswordReset: catch { await db.rollback(); throw error }
UInnerRollback(r, ok) ==
    /\ uow[r].pc = "h_rollback"
    /\ uow' = [uow EXCEPT ![r] = HandlerThrows([@ EXCEPT !.db = dbRollback(@, ok)])]
    /\ UNCHANGED storeSide

\* handleRequest: await db.commit(), then the response
UCommit(r, ok) ==
    /\ uow[r].pc = "u_commit"
    /\ uow' = [uow EXCEPT ![r] =
                  [@ EXCEPT !.db = dbCommit(@, ok),
                            !.pc = IF dbCommitThrows(uow[r].db, ok) THEN "u_catch"
                                   ELSE "u_release"]]
    /\ UNCHANGED storeSide

\* handleRequest: catch { await db.rollback(); errorHandler(...) }
UCatch(r, ok) ==
    /\ uow[r].pc = "u_catch"
    /\ uow' = [uow EXCEPT ![r] = [@ EXCEPT !.db = dbRollback(@, ok), !.pc = "u_release"]]
    /\ UNCHANGED storeSide

\* handleRequest: finally { db.release() }
URelease(r) ==
    /\ uow[r].pc = "u_release"
    /\ uow' = [uow EXCEPT ![r] = [@ EXCEPT !.db = dbRelease(@), !.pc = "done"]]
    /\ UNCHANGED storeSide

ALLOWED_TABLES ==
    {"users", "user_sessions", "error_logs", "audit_logs", "password_reset_tokens",
     "orgs", "org_users"}

\* the variant that lets every name through
isValidTableName_any(table) == TRUE

isValidTableName(table) == table \in ALLOWED_TABLES

Helpers == {"insert", "upsert", "find", "delete", "update"}

\* what a helper does before it builds its statement: ensureConnected,
\* validateTableName, and for insert and upsert the check of an empty argument
\* (n rows to insert, n conflict columns)
helperThrows(d, h, table, n) ==
    \/ ~d.client \/ d.released
    \/ ~isValidTableName(table)
    \/ h \in {"insert", "upsert"} /\ n = 0

\* a handler calls db.insert / upsert / find / delete / update with a table
\* name; ok = FALSE: the database rejects the statement
UQuery(r, h, table, n, ok) ==
    /\ uow[r].pc = "h_query"
    /\ uow' = [uow EXCEPT ![r] =
                  LET c == [@ EXCEPT !.helper = h, !.table = table]
                  IN IF helperThrows(c.db, h, table, n) THEN HandlerThrows(c)
                     ELSE IF ok THEN HandlerReturns([c EXCEPT !.db = Sent(@, "SQL")])
                     ELSE HandlerThrows([c EXCEPT !.db = Sent(@, "SQL")])]
    /\ UNCHANGED storeSide

\* table names handlers are called with: some of the list, some outside it
TableNames == {"users", "audit_logs", "Users", "pg_shadow", "users; DROP TABLE users"}

NextTable ==
    \/ StartUow(1, "query")
    \/ \E r \in Req :
          \/ \E ok \in BOOLEAN :
                \/ UPool(r, ok) \/ UBegin(r, ok) \/ UHandler(r, ok)
                \/ UCommit(r, ok) \/ UCatch(r, ok)
                \/ \E h \in Helpers, t \in TableNames, n \in 0..1 : UQuery(r, h, t, n, ok)
          \/ URelease(r)

SpecTable == InitUp /\ [][NextTable]_vars

NextUow ==
    \E r \in Req :
        \/ \E k \in {"plain", "reset"} : StartUow(r, k)
        \/ \E ok \in BOOLEAN :
              \/ UPool(r, ok) \/ UBegin(r, ok) \/ UHandler(r, ok) \/ UWrite(r, ok)
              \/ UInnerCommit(r, ok) \/ UInnerRollback(r, ok) \/ UCommit(r, ok)
              \/ UCatch(r, ok)
        \/ URelease(r)

SpecUow == Init /\ [][NextUow]_vars

\* --------------------------------------------------------------- properties
\* C1: two refresh requests that ran with the same refresh token never both
\* succeed: at most one of them is answered with a new token pair
ExactlyOneRefreshWins ==
    \A r1, r2 \in Req :
        (/\ r1 # r2
         /\ req[r1].kind = "refresh" /\ req[r1].pc = "done"
         /\ req[r2].kind = "refresh" /\ req[r2].pc = "done"
         /\ req[r1].tok = req[r2].tok)
        => ~(req[r1].out = "OK" /\ req[r2].out = "OK")

\* C2: once a refresh that failed as TOKEN_REUSE_DETECTED has completed, the
\* session of the presented token is stored revoked with reason token_reuse
\* and no session of that subject is still active
ReuseRevokesAll ==
    \A r \in Req :
        (req[r].kind = "refresh" /\ req[r].pc = "done" /\ req[r].out = "TOKEN_REUSE_DETECTED")
        => /\ sessions[req[r].sid].status = "revoked"
           /\ sessions[req[r].sid].revoke_reason = "token_reuse"
           /\ \A s \in Sids : ~(sessions[s].status = "active" /\ sessions[s].user_id = req[r].user)

\* C3: with requests one after another, the refresh identifiers issued are
\* pairwise distinct under hashing, every session stores the hash of exactly
\* one issued token, and a refresh succeeds only with the token whose hashed
\* identifier is the one the session stores (the latest rotation's)
RotationUnique ==
    /\ [](/\ \A t1, t2 \in RefreshTokens : hashJti(t1.jti) = hashJti(t2.jti) => t1 = t2
          /\ \A s \in Sids : sessions[s].status # "absent" =>
                Cardinality({t \in RefreshTokens :
                                t.sid = s /\ hashJti(t.jti) = sessions[s].refresh_jti}) = 1)
    /\ [][\A r \in Req :
             (/\ req[r].kind = "refresh" /\ req[r].pc = "commit"
              /\ req'[r].pc = "done" /\ req'[r].out = "OK")
             => /\ sessions[req[r].tok.sid].refresh_jti = hashJti(req[r].tok.jti)
                /\ sessions'[req[r].tok.sid].refresh_jti = hashJti(req[r].newJti)
                /\ sessions'[req[r].tok.sid].refresh_jti # sessions[req[r].tok.sid].refresh_jti]_vars

\* two rotations of one session have succeeded
RotatedTwice ==
    \E r \in Req :
        /\ req[r].kind = "refresh" /\ req[r].pc = "done" /\ req[r].out = "OK"
        /\ Cardinality({t \in RefreshTokens : t.sid = req[r].sid}) = 3

\* C4: a session's status changes only active -> revoked or active -> expired;
\* the status of a revoked or expired session never changes
StatusTerminal ==
    [][\A s \in Sids :
          /\ sessions[s].status \in {"revoked", "expired"} => sessions'[s].status = sessions[s].status
          /\ sessions[s].status = "active" => sessions'[s].status \in {"active", "revoked", "expired"}]_vars

\* C5: a logout that finishes on a session already revoked by logout is
\* answered without error and leaves the session revoked with reason logout
LogoutIdempotent ==
    [][\A r \in Req :
          (/\ req[r].kind = "logout" /\ req[r].pc \in {"commit", "rollback"}
           /\ req'[r].pc = "done"
           /\ sessions[req[r].sid].status = "revoked"
           /\ sessions[req[r].sid].revoke_reason = "logout")
          => /\ req'[r].out = "OK"
             /\ sessions'[req[r].sid].status = "revoked"
             /\ sessions'[req[r].sid].revoke_reason = "logout"]_vars

\* a second logout has run its statement on a session the first one revoked
SecondLogoutRan ==
    \E r \in Req :
        /\ req[r].kind = "logout" /\ req[r].pc = "commit"
        /\ sessions[req[r].sid].status = "revoked"
        /\ sessions[req[r].sid].revoke_reason = "logout"
        /\ tx[r].sess[req[r].sid].status = "revoked"

\* C6: a logout that commits on a session already revoked or expired leaves
\* the session record (status, revoke reason, revoked timestamp) unchanged
LogoutFrame ==
    [][\A r \in Req :
          (/\ req[r].kind = "logout" /\ req[r].pc = "commit" /\ req'[r].pc = "done"
           /\ sessions[req[r].sid].status \in {"revoked", "expired"})
          => sessions'[req[r].sid] = sessions[req[r].sid]]_vars

\* C7 (as stated): while the email-scoped lock has been set since a login for
\* that email arrived, the login is rejected as locked, the credential is not
\* checked and no session is created
LockRejectsLogin ==
    \A r \in Req :
        (req[r].kind = "login" /\ req[r].lockHeld)
        => /\ ~req[r].cmp
           /\ req[r].sid = 0
           /\ req[r].pc = "done" => req[r].out = "ACCOUNT_LOCKED"

\* C7 (amended): a login that arrives while the email-scoped lock of its
\* email is set, and whose lockout check runs with the lock still set and
\* finds the cache reachable, is rejected (as locked, or with the cache's
\* error when the cache fails during the check); its credential is not
\* checked and no session is created
LockRejectsLoginWhenCacheAnswers ==
    \A r \in Req :
        (req[r].kind = "login" /\ req[r].lockHeld /\ req[r].chkUp)
        => /\ ~req[r].cmp
           /\ req[r].sid = 0
           /\ req[r].pc = "done" => req[r].out \in {"ACCOUNT_LOCKED", "REDIS_ERROR"}

\* a login with the correct password was rejected as locked
CorrectPasswordLocked ==
    \E r \in Req :
        /\ req[r].kind = "login" /\ req[r].email = "a1" /\ req[r].pw = "good"
        /\ req[r].lockHeld /\ req[r].chkUp
        /\ req[r].pc = "done" /\ req[r].out = "ACCOUNT_LOCKED"

\* C8: the steps of clearLockout change no counter, expiry or lock other than
\* those of the login's own email; its first delete removes the email's
\* counter and its second the email's lock
ClearLockoutFrame ==
    [][\A r \in Req :
          (req[r].pc \in {"clr_ping", "clr_del1", "clr_del2"} /\ req'[r].pc # req[r].pc)
          => /\ \A k \in LockKeys \ {lockoutKey("email", req[r].email)} :
                   /\ lockCnt'[k] = lockCnt[k]
                   /\ lockTtl'[k] = lockTtl[k]
                   /\ locked'[k] = locked[k]
             /\ (req[r].pc = "clr_del1" /\ req'[r].pc = "clr_del2")
                => lockCnt'[lockoutKey("email", req[r].email)] = 0
             /\ (req[r].pc = "clr_del2" /\ req'[r].pc = "create_session")
                => ~locked'[lockoutKey("email", req[r].email)]]_vars

\* clearLockout has deleted the email's counter while the origin and another
\* email have failures on record
ClearedBesideOthers ==
    \E r \in Req :
        /\ req[r].kind = "login" /\ req[r].pc = "clr_del2"
        /\ lockCnt[lockoutKey("email", req[r].email)] = 0
        /\ lockCnt[lockoutKey("ip", req[r].ip)] > 0
        /\ lockCnt[lockoutKey("email", "a2")] > 0

\* C9: every failed login that supplies an origin has incremented the
\* ip-scoped counter of that origin, whatever the email-scoped outcome
IpCountsEveryFailure ==
    \A r \in Req :
        (/\ req[r].kind = "login" /\ req[r].pc = "done" /\ req[r].ip # NoIp
         /\ req[r].out \in {"INVALID_CREDENTIALS", "LOCKED_AFTER_FAILURE"})
        => req[r].recIp = req[r].ip

\* C10: whatever the cache configuration, the middleware accepts a request
\* exactly when verifyAccessToken accepts its token (the outcome it gives
\* with the cache available)
AuthSameWithoutCache ==
    \A r \in Req :
        req[r].authed # "none" => ((req[r].authed = "accept") <=> req[r].valid)

\* C11: the lockout guard never fails a login with valid credentials: such a
\* login ends with a session, or is rejected as locked by a lock the guard
\* read from a reachable cache, but never with an error of the guard's cache
\* calls (cache not configured, down, or going down between two calls)
GuardFailsOpen ==
    \A r \in Req :
        (/\ req[r].kind = "login" /\ req[r].pc = "done"
         /\ req[r].pw = "good" /\ getUserByEmail(req[r].email) # "none")
        => req[r].out \in {"OK", "ACCOUNT_LOCKED"}

\* C12: at most one token validation is pending per session key, and the map
\* points at it; a request that reaches the in-flight lookup while a validation
\* of its key is pending joins that validation and starts none; every request
\* that awaited a validation is answered by that validation's outcome.
InFlightDedup ==
    /\ [](/\ \A p, q \in PromiseIds :
                (/\ promises[p].state = "pending" /\ promises[q].state = "pending"
                 /\ promises[p].key = promises[q].key) => p = q
          /\ \A p \in PromiseIds :
                promises[p].state = "pending" => inProgressValidation[promises[p].key] = p
          /\ \A r \in Req :
                (lreq[r].promise # 0 /\ lreq[r].pc \in {"v_set", "done"})
                => ((promises[lreq[r].promise].state = "rejected")
                       <=> (lreq[r].pc = "done" /\ lreq[r].out = "UNAUTHORIZED")))
    /\ [][\A r \in Req, p \in PromiseIds :
             (/\ lreq[r].pc = "v_join" /\ lreq'[r].pc = "v_await"
              /\ promises[p].state = "pending" /\ promises[p].key = lreq[r].key)
             => (lreq'[r].promise = p /\ nextPromise' = nextPromise
                 /\ promises' = promises)]_vars

\* two requests were answered by one validation, one of them having joined it
JoinedPending ==
    \E r, q \in Req :
        /\ r # q
        /\ lreq[r].pc = "done" /\ lreq[q].pc = "done"
        /\ lreq[r].started /\ ~lreq[q].started
        /\ lreq[q].promise # 0 /\ lreq[q].promise = lreq[r].promise
        /\ lreq[q].out = lreq[r].out

UnitOfWorkProtocol ==
    \A r \in Req :
        LET d == uow[r].db
            Has(ev) == \E i \in DOMAIN d.log : d.log[i] = ev
            Before(a, b) ==
                \A i \in DOMAIN d.log : d.log[i] = b => \E j \in 1..(i - 1) : d.log[j] = a
            Count(ev) == Cardinality({i \in DOMAIN d.log : d.log[i] = ev})
        IN /\ Before("ACQUIRE", "BEGIN") /\ Before("ACQUIRE", "BEGIN_FAILED")
           /\ Before("BEGIN", "HANDLER")
           /\ Before("RETURN", "COMMIT") /\ Before("RETURN", "COMMIT_FAILED")
           /\ Count("RELEASE") <= 1
           /\ uow[r].pc = "done" =>
                 /\ Has("RETURN") => (Has("COMMIT") \/ Has("COMMIT_FAILED"))
                 /\ Has("THROW") => (Has("ROLLBACK") \/ Has("ROLLBACK_FAILED"))
                 /\ Count("RELEASE") = (IF Has("ACQUIRE") THEN 1 ELSE 0)
                 /\ Has("RELEASE") => d.log[Len(d.log)] = "RELEASE"

KindConfusionRejected ==
    \A r \in Req :
        /\ (req[r].kind \in {"me", "logout"} /\ req[r].tok.typ # "access")
           => (req[r].authed # "accept" /\ req[r].pc \in {"au_inst", "au_get", "done"})
        /\ (req[r].kind = "refresh" /\ (req[r].tok.typ # "refresh" \/ req[r].tok.jti = NoJti))
           => /\ req[r].pc \in {"connect", "rf_jti", "rollback", "done"}
              /\ req[r].pc \in {"rollback", "done"} => req[r].out = "INVALID_REFRESH_TOKEN"
              /\ tx[r].sess = EmptyTx.sess

\* unexpired tokens of the wrong kind were presented and refused: a refresh
\* token to a resource request, an access token to the refresh endpoint
WrongKindRefused ==
    \E r, q \in Req :
        /\ req[r].kind = "me" /\ req[r].pc = "done" /\ req[r].tok.typ \in {"refresh", "id"}
        /\ verifyToken(req[r].tok) /\ req[r].out = "INVALID_TOKEN"
        /\ req[q].kind = "refresh" /\ req[q].pc = "done" /\ req[q].tok.typ \in {"access", "id"}
        /\ verifyToken(req[q].tok) /\ req[q].out = "INVALID_REFRESH_TOKEN"

\* C17: a login with valid credentials, the cache reachable and no lock set,
\* ends with success and its session committed, whether or not its audit entry
\* could be written.
AuditFailureHarmless ==
    \A r \in Req :
        (/\ req[r].kind = "login" /\ req[r].pc = "done"
         /\ req[r].pw = "good" /\ getUserByEmail(req[r].email) # "none")
        => (req[r].out = "OK" /\ sessions[req[r].sid].status = "active")

\* C18: the middleware accepts a resource request only while the session its
\* access token was issued for is active (not revoked and not expired).
AcceptsActiveSessionOnly ==
    [][\A r \in Req :
          (/\ req'[r].kind \in {"me", "logout"}
           /\ req[r].authed # "accept" /\ req'[r].authed = "accept")
          => getActiveSession(sessions, req'[r].tok.sid, now) # 0]_vars

\* C19: a request whose handler called a generic query helper with a table
\* name outside the allow-list has had the helper throw and has sent no
\* statement of that helper to the database.
TableNameChecked ==
    \A r \in Req :
        (uow[r].helper \in Helpers /\ uow[r].table \notin ALLOWED_TABLES)
        => /\ \A i \in DOMAIN uow[r].db.log : uow[r].db.log[i] # "SQL"
           /\ \E i \in DOMAIN uow[r].db.log : uow[r].db.log[i] = "THROW"

\* a helper was called with a name outside the list and the request has ended,
\* rolled back
BadTableRefused ==
    \E r \in Req :
        /\ uow[r].pc = "done" /\ uow[r].helper = "update"
        /\ uow[r].table = "users; DROP TABLE users"
        /\ uow[r].db.log = <<"ACQUIRE", "BEGIN", "HANDLER", "THROW", "ROLLBACK", "RELEASE">>

\* C20: once a refresh request has answered that it detected a reuse, the cache
\* holds no session:<sid> entry of any session owned by the token's subject.
ReuseInvalidatesCache ==
    \A r \in Req :
        (req[r].kind = "refresh" /\ req[r].pc = "done" /\ req[r].out = "TOKEN_REUSE_DETECTED")
        => \A s \in cacheSession :
              sessions[s].status = "absent" \/ sessions[s].user_id # req[r].tok.sub

\* C21: a refresh whose verified token names a session that is not active goes
\* on to the lookup by session id and fails there with SESSION_NOT_FOUND; one
\* whose subject is not the owner of the session found fails with
\* SESSION_USER_MISMATCH; a refresh that ends with either error has written
\* nothing to any session; and the reuse response is entered only when the
\* session named by the token is active and stores another identifier.
InvalidSessionNoEffect ==
    [][\A r \in Req :
          (req[r].kind = "refresh" /\ req'[r] # req[r])
          => LET tok == req[r].tok
                 s == getSessionByRefreshJti(sessions, tok.jti)
             IN /\ (/\ req[r].pc = "rf_jti" /\ verifyRefreshToken(tok)
                    /\ sessions[tok.sid].status # "active")
                   => req'[r].pc = "rf_active"
                /\ (/\ req[r].pc = "rf_jti" /\ verifyRefreshToken(tok)
                    /\ s # 0 /\ sessions[s].user_id # tok.sub)
                   => req'[r].out = "SESSION_USER_MISMATCH"
                /\ (req[r].pc = "rf_active" /\ sessions[tok.sid].status # "active")
                   => (req'[r].pc = "rollback" /\ req'[r].out = "SESSION_NOT_FOUND")
                /\ (/\ req[r].pc = "rollback" /\ req'[r].pc = "done"
                    /\ req[r].out \in {"SESSION_NOT_FOUND", "SESSION_USER_MISMATCH"})
                   => (sessions' = sessions /\ tx[r].sess = EmptyTx.sess)
                /\ req'[r].pc = "rf_revoke"
                   => (/\ sessions[tok.sid].status = "active"
                       /\ sessions[tok.sid].refresh_jti # hashJti(tok.jti))]_vars

\* an unexpired refresh token of a revoked session was refused as invalid session
RevokedSessionRefused ==
    \E r \in Req :
        /\ req[r].kind = "refresh" /\ req[r].pc = "done"
        /\ req[r].out = "SESSION_NOT_FOUND"
        /\ verifyRefreshToken(req[r].tok)
        /\ sessions[req[r].tok.sid].status = "revoked"

\* C22: at the instant a run of runCleanup has completed, no session whose
\* expiry timestamp lies in the past has status active.
SweepExpiresStale ==
    cleanupAt = now
    => \A s \in Sids : ~(sessions[s].status = "active" /\ sessions[s].expires_at < now)

\* C23: a refresh that presents a verified refresh token of a session whose
\* expiry timestamp has passed does not go on to rotate it: its lookup leads to
\* an error or to the lookup by session id, which fails, whether the status of
\* the session is still active or already expired.
NoRotationPastExpiry ==
    [][\A r \in Req :
          (/\ req[r].kind = "refresh" /\ req[r].pc = "rf_jti" /\ req'[r] # req[r]
           /\ verifyRefreshToken(req[r].tok)
           /\ sessions[req[r].tok.sid].status \in {"active", "expired"}
           /\ sessions[req[r].tok.sid].expires_at < now)
          => req'[r].pc \in {"rollback", "rf_active"}]_vars

\* concurrent logins for one account, right and wrong passwords, cache reachable
NextLockRace ==
    \/ \E r \in Req :
          \/ \E pw \in {"good", "bad"} : StartLogin(r, FALSE, "a1", pw, NoIp)
          \/ UnitOfWork(r) \/ LockoutCheck(r) \/ LoginSuccess(r) \/ LoginFailure(r)
          \/ RecTtl(r)
    \/ \E k \in LockKeys : ExpireCounter(k) \/ ExpireLock(k)

SpecLockRace == InitUp /\ [][NextLockRace]_vars

\* C24: no login request removes an email lock that is set: the second delete
\* of clearLockout, run by a login that passed the lock check before the lock
\* was set, never turns a set lock off.
LockSurvivesLogins ==
    [][\A r \in Req :
          (req[r].kind = "login" /\ req[r].pc = "clr_del2" /\ req'[r].pc = "create_session")
          => ~(/\ locked[clearLockoutKey(req[r].email)]
               /\ ~locked'[clearLockoutKey(req[r].email)])]_vars

\* the TTL of a counter key runs out at the time redis.expire fixed for it
CounterTimeout(k) ==
    /\ now >= window[k].due
    /\ ExpireCounter(k)

\* the clock advances; a counter key never outlives its TTL
TickWindow ==
    /\ \A k \in LockKeys : lockTtl[k] => now < window[k].due
    /\ Tick

\* failed logins for one account over time, one at a time, cache reachable
NextWindow ==
    \/ \E r \in Req :
          \/ \E pw \in {"good", "bad"} : StartLogin(r, TRUE, "a1", pw, NoIp)
          \/ UnitOfWork(r) \/ LockoutCheck(r) \/ LoginSuccess(r) \/ LoginFailure(r)
    \/ \E k \in LockKeys : CounterTimeout(k) \/ ExpireLock(k)
    \/ TickWindow

SpecWindow == InitUp /\ [][NextWindow]_vars

\* C25: a failed attempt for an email that comes less than one window length
\* after the fourth-latest failed attempt before it, with no successful login
\* and no lock in between, reaches the threshold and goes on to set the lock.
SlidingWindowLocks ==
    [][\A r \in Req :
          (/\ req[r].kind = "login" /\ req[r].pc = "rec_incr" /\ req[r].scope = "email"
           /\ req'[r].pc # "rec_incr"
           /\ Len(window[ScopeKey(req[r])].fails) = EmailMaxAttempts - 1
           /\ now - Head(window[ScopeKey(req[r])].fails) < WindowLen)
          => req'[r].pc = "rec_set"]_vars

\* the lockout guard on both scopes with a cache that fails and recovers:
\* failed logins for one account with and without an origin, one at a time
NextGuard ==
    \/ \E r \in Req :
          \/ \E ip \in {"ip1", NoIp} : StartLogin(r, TRUE, "a1", "bad", ip)
          \/ Connect(r) \/ Rollback(r) \/ LockoutCheck(r) \/ GetUser(r) \/ LoginFailure(r)
          \/ RecTtl(r)
    \/ \E k \in LockKeys : ExpireCounter(k) \/ ExpireLock(k)
    \/ RedisFail
    \/ RedisRecover

SpecGuard == InitConfigured /\ [][NextGuard]_vars

\* C26 as stated: the steps of checkLockout change nothing in the cache; a
\* check that reports not locked finds no lock set on the email and, when an
\* origin is supplied, none on the origin; a check that reports locked finds
\* one of them set.
CheckReportsLocks ==
    [][\A r \in Req :
          (/\ req[r].kind = "login"
           /\ req[r].pc \in {"chk_ping", "chk_lock", "chk_ttl", "chk_cnt"}
           /\ req'[r].pc # req[r].pc)
          => /\ cacheVars' = cacheVars
             /\ req'[r].pc = "get_user"
                => /\ ~locked[lockoutKey("email", req[r].email)]
                   /\ req[r].ip # NoIp => ~locked[lockoutKey("ip", req[r].ip)]
             /\ req'[r].out = "ACCOUNT_LOCKED"
                => \/ locked[lockoutKey("email", req[r].email)]
                   \/ req[r].ip # NoIp /\ locked[lockoutKey("ip", req[r].ip)]]_vars

\* C26, amended: the steps of checkLockout change nothing in the cache; a
\* read of a scope's lock key that the cache answers leads to the locked report
\* exactly when that lock is set at the read; locked is reported only after
\* such a read; and not locked is reported only after the last scope (the
\* origin when one is supplied) has been read as not locked or has found the
\* cache unreachable at its ping.
CheckReadsLocks ==
    [][\A r \in Req :
          (/\ req[r].kind = "login"
           /\ req[r].pc \in {"chk_ping", "chk_lock", "chk_ttl", "chk_cnt"}
           /\ req'[r].pc # req[r].pc)
          => /\ cacheVars' = cacheVars
             /\ (req[r].pc = "chk_lock" /\ RedisOk)
                => (req'[r].pc = "chk_ttl" <=> locked[ScopeKey(req[r])])
             /\ req'[r].out = "ACCOUNT_LOCKED" => req[r].pc = "chk_ttl"
             /\ req'[r].pc = "get_user"
                => /\ req[r].ip # NoIp => req[r].scope = "ip"
                   /\ req[r].pc = "chk_cnt" \/ (req[r].pc = "chk_ping" /\ redisMode = "down")]_vars

\* a login with an origin passed the check of its email and was reported locked
\* by the lock of the origin
LockedByOrigin ==
    \E r \in Req :
        /\ req[r].kind = "login" /\ req[r].ip = "ip1"
        /\ req[r].pc = "done" /\ req[r].out = "ACCOUNT_LOCKED" /\ req[r].lockedBy = "ip"

\* revokeAllUserSessions(userId, reason, exceptSid) called on its own, in a
\* transaction that commits at once (exceptSid 0: no third argument)
RevokeAll(userId, reason, exceptSid) ==
    /\ \A q \in Req : ~Busy(q)
    /\ sessions' = revokeAllUserSessions(sessions, sessions, userId, reason, exceptSid, now)
    /\ revokeCall' = Cardinality(revokeAllTargets(sessions, userId, exceptSid))
    /\ UNCHANGED <<legacyVars, uow, cleanupAt, window, envVars, now, redisMode, cacheVars, resetTokens,
                   audit, pwVersion, tx, req, issued, supplyVars>>

\* sessions of two accounts that expire and are revoked in bulk, all of them
\* or all but the first session; time passes between requests
NextRevokeAll ==
    \/ \E r \in Req :
          \/ \E e \in {"a1", "a2"} : StartLogin(r, TRUE, e, "good", NoIp)
          \/ Connect(r) \/ Commit(r) \/ LockoutCheck(r) \/ LoginSuccess(r)
    \/ (\A q \in Req : ~Busy(q)) /\ Tick
    \/ ExpireStale(TRUE)
    \/ \E u \in Users, reason \in {"token_reuse", "password_change"}, x \in {0, 1} :
          RevokeAll(u, reason, x)

SpecRevokeAll == InitUp /\ [][NextRevokeAll]_vars

\* C27: a call of revokeAll turns exactly the active sessions of the subject,
\* other than the excepted one, to revoked with the given reason, returns
\* their number, and leaves every other session as it was.
RevokeAllFrame ==
    [][\A u \in Users, reason \in {"token_reuse", "password_change"}, x \in {0, 1} :
          (req' = req /\ now' = now /\ RevokeAll(u, reason, x))
          => /\ \A s \in Sids :
                   sessions'[s] =
                      IF sessions[s].status = "active" /\ sessions[s].user_id = u /\ s # x
                      THEN [sessions[s] EXCEPT !.status = "revoked", !.revoked_at = now,
                                               !.revoke_reason = reason]
                      ELSE sessions[s]
             /\ revokeCall' = Cardinality({s \in Sids : sessions'[s] # sessions[s]})]_vars

\* the latest call revoked one session of a subject whose other session had
\* been revoked before for the other reason, and left that one as it was
RevokedBesideRevoked ==
    /\ revokeCall = 1
    /\ \E s, x \in Sids :
          /\ sessions[s].status = "revoked" /\ sessions[s].revoke_reason = "password_change"
          /\ sessions[x].status = "revoked" /\ sessions[x].revoke_reason = "token_reuse"
          /\ sessions[x].user_id = sessions[s].user_id

\* C28: every active session stores a hashed value, the hash of the jti of a
\* refresh token issued for it; what login and rotation write is the hash of
\* the jti of the refresh token their response carries; and the lookup by a
\* presented jti finds a session exactly when an active session stores the
\* hash of that jti.
RefreshIdHashed ==
    /\ [](\A s \in Sids :
             sessions[s].status = "active"
             => /\ sessions[s].refresh_jti[1] = "sha256"
                /\ \E t \in RefreshTokens :
                      t.sid = s /\ sessions[s].refresh_jti = hashJti(t.jti))
    /\ [][\A r \in Req :
             /\ (req[r].pc = "create_session" /\ req'[r].pc = "commit")
                => /\ tx'[r].sess[req'[r].sid].refresh_jti = hashJti(req'[r].newJti)
                   /\ RefreshToken(req'[r].sid, req'[r].user, req'[r].newJti, req'[r].iat)
                         \in ResponseTokens(req'[r])
             /\ (req[r].pc = "rf_rotate" /\ req'[r].pc = "rf_cping")
                => /\ \A s \in Sids :
                         tx'[r].sess[s] # tx[r].sess[s]
                         => /\ s = req[r].sid
                            /\ tx'[r].sess[s].refresh_jti = hashJti(req[r].newJti)
                   /\ RefreshToken(req[r].sid, req[r].user, req[r].newJti, req[r].iat)
                         \in ResponseTokens(req'[r])
             /\ (req[r].kind = "refresh" /\ req[r].pc = "rf_jti" /\ req'[r].pc # "rf_jti"
                 /\ verifyRefreshToken(req[r].tok))
                => (req'[r].pc = "rf_active"
                    <=> ~\E s \in Sids : /\ View(r)[s].status = "active"
                                         /\ View(r)[s].refresh_jti = hashJti(req[r].tok.jti))]_vars

\* a rotation has been committed: the session stores the hash of the jti of
\* the token the refresh returned, not that of the token it was sent
RotatedHashStored ==
    \E r \in Req, t \in RefreshTokens :
        /\ req[r].kind = "refresh" /\ req[r].pc = "done" /\ req[r].out = "OK"
        /\ t.sid = req[r].sid /\ t # req[r].tok
        /\ sessions[t.sid].status = "active"
        /\ sessions[t.sid].refresh_jti = hashJti(t.jti)

\* C29: once a failed login, a login that triggered a lock, or a refresh that
\* detected reuse has completed, its audit entries are in the audit log
\* (login_failed; login_failed and account_locked; token_reuse_detected).
SecurityEventsDurable ==
    \A r \in Req :
        req[r].pc = "done"
        => /\ (req[r].kind = "login" /\ req[r].out = "INVALID_CREDENTIALS")
              => "login_failed" \in audit
           /\ (req[r].kind = "login" /\ req[r].out = "LOCKED_AFTER_FAILURE")
              => {"login_failed", "account_locked"} \subseteq audit
           /\ (req[r].kind = "refresh" /\ req[r].out = "TOKEN_REUSE_DETECTED")
              => "token_reuse_detected" \in audit

\* a refresh next to a logout of the same session, cache reachable
NextRefreshLogout ==
    \/ \E r \in Req :
          \/ StartLogin(r, TRUE, "a1", "good", NoIp)
          \/ \E t \in RefreshTokens : StartRefresh(r, FALSE, t)
          \/ \E t \in AccessTokens : StartAuthed(r, FALSE, "logout", t)
          \/ UnitOfWork(r) \/ LockoutCheck(r) \/ LoginSuccess(r)
          \/ Rotation(r) \/ ReuseResponse(r) \/ Authenticate(r) \/ Logout(r)

SpecRefreshLogout == InitUp /\ [][NextRefreshLogout]_vars

\* C30: when the transaction of a refresh that answers with a new token pair
\* commits, the session is active and stores the hash of the jti of the
\* refresh token returned.
RefreshRotatedActive ==
    [][\A r \in Req :
          (/\ req[r].kind = "refresh" /\ req[r].pc = "commit"
           /\ req'[r].pc = "done" /\ req'[r].out = "OK")
          => /\ sessions'[req[r].sid].status = "active"
             /\ sessions'[req[r].sid].refresh_jti = hashJti(req[r].newJti)]_vars

\* completePasswordReset: one of the three statements or the COMMIT is
\* rejected by the database; catch: await db.rollback(), throw error
RsFail(r) ==
    /\ req[r].pc \in {"rs_mark", "rs_pw", "rs_revoke", "rs_commit"}
    /\ tx' = [tx EXCEPT ![r] = EmptyTx]
    /\ req' = [req EXCEPT ![r] = Throw(@, "DB_ERROR")]
    /\ UNCHANGED <<auxVars, now, redisMode, cacheVars, storeVars, issued, supplyVars>>

\* completions of one password reset presented at the same time, with
\* statements that may fail, after a login
NextResetRace ==
    \E r \in Req :
        \/ StartLogin(r, TRUE, "a1", "good", NoIp)
        \/ StartResetRequest(r, TRUE, "a1")
        \/ \E t \in ResetIds : StartReset(r, FALSE, t)
        \/ UnitOfWork(r) \/ LockoutCheck(r) \/ LoginSuccess(r)
        \/ ResetRequest(r) \/ ResetComplete(r) \/ RsFail(r)

SpecResetRace == InitUp /\ [][NextResetRace]_vars

\* C31: the only step of a password-reset completion that changes the store
\* is its commit, which marks the unused token used, replaces the password
\* and revokes every active session of the user with reason password_change;
\* a completion whose token is unknown, used or expired is refused at once.
ResetAllOrNothing ==
    [][\A r \in Req :
          (req[r].kind = "reset" /\ req'[r].pc # req[r].pc)
          => /\ IF req[r].pc = "rs_commit" /\ req'[r].pc = "commit"
                THEN /\ ~resetTokens[req[r].rtok].used
                     /\ resetTokens'[req[r].rtok].used
                     /\ pwVersion'[req[r].user] = pwVersion[req[r].user] + 1
                     /\ \A s \in Sids :
                           (sessions[s].status = "active" /\ sessions[s].user_id = req[r].user)
                           => /\ sessions'[s].status = "revoked"
                              /\ sessions'[s].revoke_reason = "password_change"
                ELSE storeVars' = storeVars
             /\ (req[r].pc = "rs_validate" /\ ~validResetToken(resetTokens, req[r].rtok))
                => req'[r].pc = "rollback"]_vars

\* C32: of the completions that present one reset token at most one
\* succeeds, and the password is replaced at most once per token.
ResetTokenOneTime ==
    /\ \A t \in ResetIds :
          Cardinality({r \in Req : /\ req[r].kind = "reset" /\ req[r].rtok = t
                                   /\ req[r].pc = "done" /\ req[r].out = "OK"}) <= 1
    /\ \A u \in Users : pwVersion[u] <= Cardinality({t \in ResetIds : resetTokens[t].status = "token"
                                                                      /\ resetTokens[t].user_id = u})

\* ------------------------------------------------- retention sweep, by steps
\* runCleanup is called (by the scheduler or by hand): new DB(), db.connect()
StartCleanup(r, seq) ==
    /\ Admit(r, seq)
    /\ req' = [req EXCEPT ![r] = [IdleReq EXCEPT !.kind = "cleanup", !.pc = "connect"]]
    /\ UNCHANGED <<auxVars, now, redisMode, cacheVars, storeVars, tx, issued, supplyVars>>

\* the two DELETE FROM user_sessions (revoked, then expired) past retention;
\* a DELETE waits for a row another open transaction has written
CuSessions(r) ==
    /\ req[r].pc = "cu_sessions"
    /\ LET del == cleanupTargets(View(r), NOW(r))
       IN /\ ~RowLocked(r, del)
          /\ tx' = [tx EXCEPT ![r].sess = [s \in Sids |-> IF s \in del THEN NoRow ELSE @[s]]]
    /\ req' = [req EXCEPT ![r].pc = "cu_tokens"]
    /\ UNCHANGED <<auxVars, now, redisMode, cacheVars, storeVars, issued, supplyVars>>

\* DELETE FROM password_reset_tokens WHERE used_at IS NOT NULL OR expires_at < NOW()
CuTokens(r) ==
    /\ req[r].pc = "cu_tokens"
    /\ LET del == cleanupResetTargets(ResetView(r), NOW(r))
       IN /\ ~ResetLocked(r, del)
          /\ tx' = [tx EXCEPT ![r].reset = [t \in ResetIds |-> IF t \in del THEN NoRow ELSE @[t]]]
    /\ req' = [req EXCEPT ![r] = Return(@)]
    /\ UNCHANGED <<auxVars, now, redisMode, cacheVars, storeVars, issued, supplyVars>>

\* a statement of the sweep or its COMMIT is rejected; catch: await
\* db.rollback(), throw error
CuFail(r) ==
    /\ req[r].kind = "cleanup"
    /\ req[r].pc \in {"cu_sessions", "cu_tokens", "commit"}
    /\ tx' = [tx EXCEPT ![r] = EmptyTx]
    /\ req' = [req EXCEPT ![r] = Throw(@, "DB_ERROR")]
    /\ UNCHANGED <<auxVars, now, redisMode, cacheVars, storeVars, issued, supplyVars>>

\* logins, logouts and reset requests one at a time, sweeps next to them and
\* next to each other, the clock, some sweeps failing
NextSweepSteps ==
    \/ \E r \in Req :
          \/ StartLogin(r, TRUE, "a1", "good", NoIp)
          \/ \E t \in AccessTokens : StartAuthed(r, TRUE, "logout", t)
          \/ StartResetRequest(r, TRUE, "a1")
          \/ StartCleanup(r, TRUE)
          \/ UnitOfWork(r) \/ LockoutCheck(r) \/ LoginSuccess(r)
          \/ Authenticate(r) \/ Logout(r) \/ ResetRequest(r)
          \/ CuSessions(r) \/ CuTokens(r) \/ CuFail(r)
    \/ Tick
    \/ ExpireStale(TRUE)

SpecSweepSteps == InitUp /\ [][NextSweepSteps]_vars

NextSweepPair ==
    \/ \E r \in Req :
          \/ (\A q \in Req : ~Busy(q)) /\ StartLogin(r, TRUE, "a1", "good", NoIp)
          \/ (\A q \in Req : ~Busy(q)) /\ \E t \in AccessTokens : StartAuthed(r, TRUE, "logout", t)
          \/ (\A q \in Req : ~Busy(q)) /\ StartResetRequest(r, TRUE, "a1")
          \/ (\A q \in Req : Busy(q) => req[q].kind = "cleanup") /\ r <= 2
                /\ StartCleanup(r, FALSE)
          \/ Connect(r) \/ Commit(r) \/ LockoutCheck(r) \/ LoginSuccess(r)
          \/ Authenticate(r) \/ Logout(r) \/ ResetRequest(r)
          \/ CuSessions(r) \/ CuTokens(r)
    \/ (\A q \in Req : Busy(q) => req[q].kind = "cleanup") /\ Tick
    \/ ExpireStale(TRUE)

SpecSweepPair == InitUp /\ [][NextSweepPair]_vars

\* C34: whatever sweeps ran before it or run next to it, the commit of a sweep
\* leaves the store as one sweep at that sweep's time leaves it: every session
\* and reset token that is past retention at that time is gone, nothing else
\* is touched (so a second sweep changes nothing, and a skipped cycle's
\* deletions are done by the next sweep)
SweepSameAsOnce ==
    [][\A r \in Req :
          (req[r].kind = "cleanup" /\ req[r].pc = "commit" /\ req'[r].pc = "done") =>
              /\ sessions' =
                    [s \in Sids |->
                        IF \/ /\ sessions[s].status = "revoked"
                              /\ sessions[s].revoked_at < NOW(r) - RetentionRevoked
                           \/ /\ sessions[s].status = "expired"
                              /\ sessions[s].expires_at < NOW(r) - RetentionExpired
                        THEN NoRow ELSE sessions[s]]
              /\ resetTokens' =
                    [x \in ResetIds |->
                        IF /\ resetTokens[x].status = "token"
                           /\ resetTokens[x].used \/ resetTokens[x].expires_at < NOW(r)
                        THEN NoRow ELSE resetTokens[x]]]_vars

\* a sweep waits for a row that another sweep has deleted and not yet committed
SweepsOverlap ==
    \E r, q \in Req : \E s \in Sids :
        /\ r # q
        /\ req[r].kind = "cleanup" /\ req[r].pc = "commit" /\ tx[r].sess[s] = NoRow
        /\ req[q].kind = "cleanup" /\ req[q].pc = "cu_sessions"
        /\ sessions[s].status = "revoked"
        /\ sessions[s].revoked_at < NOW(q) - RetentionRevoked

\* ------------------------------------------------ release of an open unit
\* a holder of a DB whose transaction is open (connect() has returned, neither
\* commit() nor rollback() was called) calls db.release()
UAbandon(r) ==
    /\ uow[r].pc = "u_handler"
    /\ uow' = [uow EXCEPT ![r] = [@ EXCEPT !.db = dbRelease(@), !.pc = "done"]]
    /\ UNCHANGED storeSide

\* release() is called once more on a DB that was released (AGAIN marks the
\* call in the log)
UReleaseAgain(r) ==
    /\ uow[r].pc = "done"
    /\ uow[r].db.released
    /\ Len(uow[r].db.log) > 0
    /\ uow[r].db.log[Len(uow[r].db.log)] = "RELEASE"
    /\ uow' = [uow EXCEPT ![r] = [@ EXCEPT !.db = Sent(dbRelease(@), "AGAIN")]]
    /\ UNCHANGED storeSide

\* the ROLLBACK that release() left with the client is answered by the
\* database; a failure is logged by the .catch and nothing else is done
UEmergency(r, ok) ==
    /\ uow[r].pc = "done"
    /\ LET l == uow[r].db.log
       IN /\ Len(l) >= 2
          /\ l[Len(l) - 1] = "ROLLBACK_QUEUED"
          /\ l[Len(l)] = "RELEASE"
    /\ uow' = [uow EXCEPT ![r].db = Sent(@, IF ok THEN "ROLLBACK" ELSE "ROLLBACK_FAILED")]
    /\ UNCHANGED storeSide

NextLeak ==
    \E r \in Req :
        \/ StartUow(r, "plain")
        \/ \E ok \in BOOLEAN :
              \/ UPool(r, ok) \/ UBegin(r, ok) \/ UHandler(r, ok)
              \/ UCommit(r, ok) \/ UCatch(r, ok) \/ UEmergency(r, ok)
        \/ URelease(r) \/ UAbandon(r) \/ UReleaseAgain(r)

SpecLeak == Init /\ [][NextLeak]_vars

\* C35: when a connection goes back to the pool, the transaction begun on it
\* has been ended by a COMMIT or a ROLLBACK that the database has answered;
\* the released DB holds no client and no transaction, and a release() after
\* that sends nothing
ReleasedWithoutTransaction ==
    \A r \in Req :
        LET d == uow[r].db
            Ended(i) ==
                \A j \in 1..(i - 1) :
                    d.log[j] = "BEGIN" =>
                        \E k \in (j + 1)..(i - 1) : d.log[k] \in {"COMMIT", "ROLLBACK"}
        IN /\ \A i \in DOMAIN d.log : d.log[i] = "RELEASE" => Ended(i)
           /\ d.released => ~d.client /\ ~d.inTransaction
           /\ Cardinality({i \in DOMAIN d.log : d.log[i] = "RELEASE"}) <= 1

\* ------------------------------------------------- error log of a request
\* addToErrorTables: db.insert('error_logs', ...) is called in the catch block
\* and not awaited; ensureConnected passes when the DB holds a client, the
\* INSERT is handed to the client, finally { db.release() } runs in the same
\* tick, and the database executes the INSERT after that
UErrorLog(r, ok) ==
    /\ uow[r].pc = "done"
    /\ LET l == uow[r].db.log
           Has(ev) == \E i \in DOMAIN l : l[i] = ev
       IN /\ Has("ACQUIRE") /\ Has("RELEASE")
          /\ Has("THROW") \/ Has("BEGIN_FAILED") \/ Has("COMMIT_FAILED")
          /\ ~Has("ERROR_LOG") /\ ~Has("ERROR_LOG_FAILED")
    /\ uow' = [uow EXCEPT ![r].db = Sent(@, IF ok THEN "ERROR_LOG" ELSE "ERROR_LOG_FAILED")]
    /\ UNCHANGED storeSide

NextErrLog ==
    \E r \in Req :
        \/ StartUow(r, "plain")
        \/ \E ok \in BOOLEAN :
              \/ UPool(r, ok) \/ UBegin(r, ok) \/ UHandler(r, ok)
              \/ UCommit(r, ok) \/ UCatch(r, ok) \/ UErrorLog(r, ok)
        \/ URelease(r)

SpecErrLog == Init /\ [][NextErrLog]_vars

\* C36: once a request has returned its connection to the pool, no statement
\* of that request is executed on the connection
NoStatementAfterRelease ==
    \A r \in Req :
        LET l == uow[r].db.log
        IN \A i, j \in DOMAIN l :
              (i < j /\ l[i] = "RELEASE") =>
                  l[j] \notin {"BEGIN", "BEGIN_FAILED", "SQL", "COMMIT", "COMMIT_FAILED",
                               "ROLLBACK", "ROLLBACK_FAILED", "ERROR_LOG", "ERROR_LOG_FAILED"}

\* ------------------------------------------------------------ signing keys
\* key pairs the deployment goes through
MaxKeys == 2

\* isValidKeyId: kid === getKeyId(), the identifier of the one configured key
isValidKeyId(kid) == kid = jwtKeys.current

\* signToken: jwt.sign with getPrivateKey() and keyid: getKeyId()
SignToken(sid) ==
    /\ Cardinality(jwtKeys.signed) < 2
    /\ jwtKeys' = [jwtKeys EXCEPT !.signed =
                      @ \cup {[tok |-> AccessToken(sid, "u1", now), kid |-> jwtKeys.current]}]
    /\ UNCHANGED <<legacyVars, uow, cleanupAt, window, revokeCall, disabled, config, now,
                   redisMode, cacheVars, storeVars, tx, req, issued, supplyVars>>

\* the configured key pair is replaced (JWT_PRIVATE_KEY / JWT_PUBLIC_KEY or the
\* key files change, the process restarts or clearKeyCache is called): the
\* process holds the new pair only
RotateKey ==
    /\ jwtKeys.current < MaxKeys
    /\ jwtKeys' = [jwtKeys EXCEPT !.current = @ + 1]
    /\ UNCHANGED <<legacyVars, uow, cleanupAt, window, revokeCall, disabled, config, now,
                   redisMode, cacheVars, storeVars, tx, req, issued, supplyVars>>

\* verifyToken(token) as the code runs it: jwt.verify against getPublicKey()
\* (the signature holds when the token was signed with the pair in force),
\* then the kid of the header against isValidKeyId
VerifyJwt(p) ==
    /\ p \in jwtKeys.signed
    /\ jwtKeys' = [jwtKeys EXCEPT !.checked =
                      [kid |-> p.kid, fresh |-> now < p.tok.exp,
                       ok |-> /\ verifyToken(p.tok)
                              /\ p.kid = jwtKeys.current
                              /\ isValidKeyId(p.kid)]]
    /\ UNCHANGED <<legacyVars, uow, cleanupAt, window, revokeCall, disabled, config, now,
                   redisMode, cacheVars, storeVars, tx, req, issued, supplyVars>>

NextKeys ==
    \/ \E s \in Sids : SignToken(s)
    \/ RotateKey
    \/ \E p \in jwtKeys.signed : VerifyJwt(p)
    \/ Tick

SpecKeys == InitUp /\ [][NextKeys]_vars

\* C37: a token that has not expired and whose kid names a key pair the
\* deployment has used (the one in force or a retired one) verifies
RetiredKeyVerifies ==
    (/\ jwtKeys.checked.kid \in 1..jwtKeys.current
     /\ jwtKeys.checked.fresh)
    => jwtKeys.checked.ok

\* ------------------------------------------------------------- environment
\* the process is started with auth.mode m and NODE_ENV production or not,
\* before it serves a request
Boot(m, p) ==
    /\ now = 0 /\ nextSid = 1 /\ nextReset = 1
    /\ \A q \in Req : req[q].pc = "idle"
    /\ config' = [mode |-> m, production |-> p]
    /\ UNCHANGED <<legacyVars, uow, cleanupAt, window, revokeCall, jwtKeys, disabled, now,
                   redisMode, cacheVars, storeVars, tx, req, issued, supplyVars>>

\* an administrator sets users.disabled for u or clears it
SetDisabled(u, flag) ==
    /\ disabled' = IF flag THEN disabled \cup {u} ELSE disabled \ {u}
    /\ UNCHANGED <<legacyVars, uow, cleanupAt, window, revokeCall, jwtKeys, config, now,
                   redisMode, cacheVars, storeVars, tx, req, issued, supplyVars>>

\* reset requests for the email of an account, for the same email in another
\* case and for an email without account, in production and outside it
NextResetProd ==
    \/ \E p \in BOOLEAN : Boot("bearer", p)
    \/ \E r \in Req :
          \/ \E e \in {"a1", "A1", "zz"} : StartResetRequest(r, FALSE, e)
          \/ Connect(r) \/ Commit(r) \/ ResetRequest(r)
    \/ \E flag \in BOOLEAN : SetDisabled("u1", flag)
    \/ Tick

SpecResetProd == InitUp /\ [][NextResetProd]_vars

\* C38: in production every answer to a reset request is the same, success
\* without a token, whether or not an enabled account has the email
ProdResetSameAnswer ==
    \A r \in Req :
        (config.production /\ req[r].kind = "resetreq" /\ req[r].pc = "done")
        => req[r].out = "OK" /\ req[r].rtok = 0

\* in production a request for an account's email has stored a token and a
\* request for an unknown email has not; both are answered
ProdResetAnswered ==
    /\ config.production
    /\ \E r, q \in Req :
          /\ req[r].kind = "resetreq" /\ req[r].pc = "done" /\ req[r].email = "a1"
          /\ req[r].user = "u1"
          /\ req[q].kind = "resetreq" /\ req[q].pc = "done" /\ req[q].email = "zz"
    /\ \E t \in ResetIds : resetTokens[t].status = "token"

\* logins with the right password and refreshes for one account whose disabled
\* flag is set and cleared between requests (logins in the first slot,
\* refreshes in the second); the cache fails and comes back
NextDisabled ==
    \/ \E r \in Req :
          \/ (\A q \in Req : ~Busy(q)) /\ StartLogin(r, TRUE, "a1", "good", NoIp)
          \/ (\A q \in Req : ~Busy(q)) /\ r = 2
                /\ \E t \in RefreshTokens : StartRefresh(r, FALSE, t)
          \/ UnitOfWork(r) \/ LockoutCheck(r) \/ LoginSuccess(r) \/ LoginFailure(r)
          \/ Rotation(r)
    \/ (\A q \in Req : ~Busy(q)) /\ \E flag \in BOOLEAN : SetDisabled("u1", flag)
    \/ RedisFail
    \/ RedisRecover

SpecDisabled == InitUp /\ [][NextDisabled]_vars

\* C39 as stated: while the account is disabled, no step of a login with the
\* right password or of a refresh for it writes a session row, changes a
\* stored refresh identifier or delivers a token; the login is answered
\* Invalid credentials, the refresh fails
DisabledGetsInvalidCredentials ==
    [][\A r \in Req :
          LET u == IF req[r].kind = "login" THEN UserOfEmail(req[r].email)
                   ELSE IF req[r].kind = "refresh" THEN req[r].tok.sub ELSE "none"
          IN (u \in disabled /\ req'[r].pc # req[r].pc /\ req[r].pc \notin {"idle", "done"}) =>
                /\ tx'[r].sess = tx[r].sess
                /\ sessions' = sessions
                /\ issued' = issued
                /\ req'[r].pc = "done" =>
                      IF req[r].kind = "login" THEN req'[r].out = "INVALID_CREDENTIALS"
                      ELSE req'[r].out # "OK"]_vars

\* C39, amended: as above, and the login is answered Invalid credentials,
\* Account temporarily locked when the lockout guard has counted enough failed
\* attempts, or the cache's error when the cache fails during the request
DisabledGetsNoTokens ==
    [][\A r \in Req :
          LET u == IF req[r].kind = "login" THEN UserOfEmail(req[r].email)
                   ELSE IF req[r].kind = "refresh" THEN req[r].tok.sub ELSE "none"
          IN (u \in disabled /\ req'[r].pc # req[r].pc /\ req[r].pc \notin {"idle", "done"}) =>
                /\ tx'[r].sess = tx[r].sess
                /\ sessions' = sessions
                /\ issued' = issued
                /\ req'[r].pc = "done" =>
                      IF req[r].kind = "login"
                      THEN req'[r].out \in {"INVALID_CREDENTIALS", "LOCKED_AFTER_FAILURE",
                                            "ACCOUNT_LOCKED", "REDIS_ERROR"}
                      ELSE req'[r].out # "OK"]_vars

\* the account is disabled; a login with the right password was refused and a
\* refresh with the current token of its session failed, the session's
\* identifier is the one of that token
DisabledRefused ==
    /\ "u1" \in disabled
    /\ \E r, q \in Req :
          /\ req[r].kind = "login" /\ req[r].pw = "good" /\ req[r].pc = "done"
          /\ req[r].out = "INVALID_CREDENTIALS"
          /\ req[q].kind = "refresh" /\ req[q].pc = "done" /\ req[q].out = "USER_NOT_FOUND"
          /\ sessions[req[q].tok.sid].status = "active"
          /\ sessions[req[q].tok.sid].refresh_jti = hashJti(req[q].tok.jti)

\* ------------------------------------------------------- a commit that fails
\* handleRequest: await db.commit() is rejected; catch: db.rollback(),
\* errorHandler sends the error response. In cookie mode the handler has
\* called setTokenCookies(res, ...) before it returned: the Set-Cookie headers
\* are on the response that carries the error
CommitFails(r) ==
    /\ req[r].pc = "commit"
    /\ tx[r].open
    /\ tx' = [tx EXCEPT ![r] = EmptyTx]
    /\ issued' = IF config.mode = "cookies" THEN issued \cup ResponseTokens(req[r]) ELSE issued
    /\ req' = [req EXCEPT ![r] = Respond(@, "DB_ERROR")]
    /\ UNCHANGED <<auxVars, now, redisMode, cacheVars, storeVars, supplyVars>>

\* logins and refreshes one after another, in bearer or in cookie mode, with
\* commits that fail
NextCommitFail ==
    \/ \E m \in {"bearer", "cookies"} : Boot(m, FALSE)
    \/ \E r \in Req :
          \/ StartLogin(r, TRUE, "a1", "good", NoIp)
          \/ \E t \in RefreshTokens : StartRefresh(r, TRUE, t)
          \/ UnitOfWork(r) \/ LockoutCheck(r) \/ LoginSuccess(r)
          \/ Rotation(r) \/ ReuseResponse(r)
          \/ CommitFails(r)
    \/ Tick

SpecCommitFail == InitUp /\ [][NextCommitFail]_vars

\* C40: tokens are delivered only by the step that ends a login or a refresh
\* with success, and the refresh token delivered is the one whose hashed
\* identifier the committed session row holds
TokensOnlyForCommitted ==
    [][issued' # issued =>
          \E r \in Req :
              /\ req[r].pc = "commit" /\ req'[r].pc = "done" /\ req'[r].out = "OK"
              /\ \A t \in issued' \ issued :
                    t.typ = "refresh" =>
                        /\ sessions'[t.sid].status = "active"
                        /\ sessions'[t.sid].refresh_jti = hashJti(t.jti)]_vars

====
